---------------------------- MODULE Spec2Model ----------------------------
(***************************************************************************)
(* A model of the breast-cancer assistant: the event/callback bus of       *)
(* modules/callbacks.py, the detection adapter of modules/detection.py,    *)
(* the chat pipeline of modules/chat.py and modules/utils.py, and the      *)
(* Streamlit script of app.py that drives them.                            *)
(*                                                                         *)
(* Three specifications share the variables:                               *)
(*   SpecBus   one thread using CallbackManager (register, trigger)        *)
(*   SpecConc  two threads calling trigger on the global callback_manager  *)
(*   Spec      one user session of app.py (script runs)                    *)
(***************************************************************************)
EXTENDS Integers, Sequences, FiniteSets, TLC

VARIABLES
    \* ---- CallbackManager (modules/callbacks.py) ----
    callbacks,          \* self.callbacks: kind -> list of subscribers
    history,            \* self.history: list of event records
    clock,              \* time.time(): a counter read for each record
    accepted,           \* every record ever appended, in append order (observer)
    pc,                 \* per thread: position inside trigger
    ev,                 \* per thread: event_data of the trigger in progress
    tmp,                \* per thread: the slice self.history[-max_history:]
    idx,                \* per thread: index of the for loop over callbacks
    calls,              \* per thread: subscribers invoked by the current trigger
    ntrig,              \* number of trigger calls made
    nreg,               \* number of register calls made
    last,               \* the last call of register or trigger (observer)
    \* ---- st.session_state and the script of app.py ----
    ss,                 \* st.session_state
    run                 \* the script run in progress: position and locals

busVars == <<callbacks, history, clock, accepted, pc, ev, tmp, idx, calls, ntrig, nreg, last>>
appVars == <<ss, run>>
vars == <<callbacks, history, clock, accepted, pc, ev, tmp, idx, calls, ntrig, nreg, last, ss, run>>

(***************************************************************************)
(* Bounds of the model.                                                    *)
(***************************************************************************)
MaxTriggers == 3
MaxRegistrations == 3

(***************************************************************************)
(* modules/callbacks.py                                                    *)
(***************************************************************************)
CALLBACK_TYPES ==
    {"on_detection", "on_classification", "on_message",
     "on_error", "on_startup", "on_session_end"}

max_history == 100

NoCall == [op |-> "none"]

NoEvent == [type |-> "none", timestamp |-> 0, data |-> [none |-> TRUE]]

EventData(event_type, now, kwargs) ==
    [type |-> event_type, timestamp |-> now, data |-> kwargs]

\* if len(self.history) > self.max_history
OverLimit(h) == Len(h) > max_history

\* A slice that keeps the oldest records instead of the newest.
LastMaxHistory_KeepsOldest(h) ==
    IF Len(h) <= max_history THEN h
    ELSE SubSeq(h, 1, max_history)

\* self.history[-self.max_history:]
LastMaxHistory(h) ==
    IF Len(h) <= max_history THEN h
    ELSE SubSeq(h, Len(h) - max_history + 1, Len(h))

\* The append-and-evict of trigger as one sequential step.
AppendAndEvict(h, rec) ==
    LET h1 == Append(h, rec)
    IN  IF OverLimit(h1) THEN LastMaxHistory(h1) ELSE h1

\* A kind test that still records the event of an unknown kind.
IgnoredTrigger_Records(h, event_type, now, kwargs) ==
    Append(h, EventData(event_type, now, kwargs))

\* The return of lines 69-71 for an unknown kind: the history it leaves.
IgnoredTrigger(h, event_type, now, kwargs) == h

\* trigger, as run to completion by a single thread with no subscriber
\* registered (the state of the global callback_manager in app.py, where
\* register is never called): the history it leaves.
TriggerHistory(h, event_type, now, kwargs) ==
    IF event_type \notin CALLBACK_TYPES THEN IgnoredTrigger(h, event_type, now, kwargs)
    ELSE AppendAndEvict(h, EventData(event_type, now, kwargs))

\* The clock after a trigger call: one reading of time.time() per record.
TriggerClock(event_type, now) ==
    IF event_type \notin CALLBACK_TYPES THEN now ELSE now + 1

(***************************************************************************)
(* The bus, step by step, for the threads that use it.                     *)
(***************************************************************************)
Threads == {1, 2}
Subscribers == {"s1", "s2"}
BusKinds == {"on_message", "on_error", "on_unknown"}
Outcomes == {"returns", "raises"}

\* Histories the bus can hold when the threads start: n earlier triggers.
PriorHistory(n) ==
    [i \in 1..n |-> EventData("on_startup", i, [payload |-> "prior"])]
PriorCounts == {0, max_history - 1, max_history}

InitApp ==
    /\ ss = [none |-> TRUE]
    /\ run = [pc |-> "off"]

InitBus ==
    /\ callbacks = [k \in CALLBACK_TYPES |-> <<>>]
    /\ \E n \in PriorCounts :
         /\ history = PriorHistory(n)
         /\ accepted = PriorHistory(n)
         /\ clock = n + 1
    /\ pc = [t \in Threads |-> "idle"]
    /\ ev = [t \in Threads |-> NoEvent]
    /\ tmp = [t \in Threads |-> <<>>]
    /\ idx = [t \in Threads |-> 0]
    /\ calls = [t \in Threads |-> <<>>]
    /\ ntrig = 0
    /\ nreg = 0
    /\ last = NoCall
    /\ InitApp

\* A registration that puts the subscriber at the head of the list.
RegisterCallback_AtHead(list, callback) == <<callback>> \o list

\* self.callbacks[event_type].append(callback), line 58
RegisterCallback(list, callback) == Append(list, callback)

\* register(event_type, callback), lines 46-59.
Register(t, event_type, callback) ==
    /\ pc[t] = "idle"
    /\ nreg < MaxRegistrations
    /\ nreg' = nreg + 1
    /\ IF event_type \notin CALLBACK_TYPES
       THEN callbacks' = callbacks                     \* raise ValueError
       ELSE callbacks' = [callbacks EXCEPT ![event_type] =
                             RegisterCallback(@, callback)]
    /\ last' = [op |-> "register", kind |-> event_type, callback |-> callback,
                callbacks0 |-> callbacks, history0 |-> history,
                result |-> IF event_type \notin CALLBACK_TYPES
                           THEN "ValueError" ELSE "None"]
    /\ UNCHANGED <<history, clock, accepted, pc, ev, tmp, idx, calls, ntrig>>
    /\ UNCHANGED appVars

\* trigger(event_type, **kwargs), lines 69-78: the kind test and event_data.
TriggerCall(t, event_type, kwargs) ==
    /\ pc[t] = "idle"
    /\ ntrig < MaxTriggers
    /\ ntrig' = ntrig + 1
    /\ calls' = [calls EXCEPT ![t] = <<>>]
    /\ idx' = [idx EXCEPT ![t] = 0]
    /\ tmp' = [tmp EXCEPT ![t] = <<>>]
    /\ IF event_type \notin CALLBACK_TYPES
       THEN /\ pc' = [pc EXCEPT ![t] = "returned"]      \* warning, return
            /\ ev' = [ev EXCEPT ![t] = NoEvent]
            /\ clock' = clock
            /\ history' = IgnoredTrigger(history, event_type, clock, kwargs)
       ELSE /\ pc' = [pc EXCEPT ![t] = "append"]
            /\ ev' = [ev EXCEPT ![t] = EventData(event_type, clock, kwargs)]
            /\ clock' = clock + 1
            /\ history' = history
    /\ last' = [op |-> "trigger", kind |-> event_type, thread |-> t,
                callbacks0 |-> callbacks, history0 |-> history]
    /\ UNCHANGED <<callbacks, accepted, nreg>>
    /\ UNCHANGED appVars

\* self.history.append(event_data), line 79.
TriggerAppend(t) ==
    /\ pc[t] = "append"
    /\ history' = Append(history, ev[t])
    /\ accepted' = Append(accepted, ev[t])
    /\ pc' = [pc EXCEPT ![t] = "check"]
    /\ UNCHANGED <<callbacks, clock, ev, tmp, idx, calls, ntrig, nreg, last>>
    /\ UNCHANGED appVars

\* if len(self.history) > self.max_history, line 82.
TriggerCheck(t) ==
    /\ pc[t] = "check"
    /\ IF OverLimit(history)
       THEN /\ pc' = [pc EXCEPT ![t] = "slice"]
            /\ idx' = idx
       ELSE /\ pc' = [pc EXCEPT ![t] = "dispatch"]
            /\ idx' = [idx EXCEPT ![t] = 1]
    /\ UNCHANGED <<callbacks, history, clock, accepted, ev, tmp, calls, ntrig, nreg, last>>
    /\ UNCHANGED appVars

\* the right-hand side of line 83: self.history[-self.max_history:]
TriggerSlice(t) ==
    /\ pc[t] = "slice"
    /\ tmp' = [tmp EXCEPT ![t] = LastMaxHistory(history)]
    /\ pc' = [pc EXCEPT ![t] = "store"]
    /\ UNCHANGED <<callbacks, history, clock, accepted, ev, idx, calls, ntrig, nreg, last>>
    /\ UNCHANGED appVars

\* the assignment of line 83: self.history = <the slice>
TriggerStore(t) ==
    /\ pc[t] = "store"
    /\ history' = tmp[t]
    /\ pc' = [pc EXCEPT ![t] = "dispatch"]
    /\ idx' = [idx EXCEPT ![t] = 1]
    /\ UNCHANGED <<callbacks, clock, accepted, ev, tmp, calls, ntrig, nreg, last>>
    /\ UNCHANGED appVars

\* A loop with no try/except: the subscriber's exception leaves trigger.
AfterCallback_Propagates(outcome) ==
    IF outcome = "raises" THEN "raised" ELSE "dispatch"

\* try: callback(**kwargs) except Exception: logger.error(...), lines 90-93:
\* where the loop stands after a subscriber returned or raised an Exception.
AfterCallback(outcome) == "dispatch"

\* A dispatch that walks the subscribers newest first.
SubscribersOf_Reversed(cbs, event_type) ==
    [i \in 1..Len(cbs[event_type]) |->
        cbs[event_type][Len(cbs[event_type]) + 1 - i]]

\* self.callbacks[event_type], the list the for loop of line 89 walks.
SubscribersOf(cbs, event_type) == cbs[event_type]

\* One turn of the for loop of lines 89-93, or its end and the return.
TriggerDispatch(t) ==
    /\ pc[t] = "dispatch"
    /\ LET subs == SubscribersOf(callbacks, ev[t].type)
       IN  IF idx[t] <= Len(subs)
           THEN \E outcome \in Outcomes :
                  /\ calls' = [calls EXCEPT ![t] =
                        Append(@, [sub |-> subs[idx[t]], kind |-> ev[t].type,
                                   kwargs |-> ev[t].data, outcome |-> outcome,
                                   history_len |-> Len(history)])]
                  /\ idx' = [idx EXCEPT ![t] = @ + 1]
                  /\ pc' = [pc EXCEPT ![t] = AfterCallback(outcome)]
           ELSE /\ pc' = [pc EXCEPT ![t] = "returned"]
                /\ UNCHANGED <<calls, idx>>
    /\ UNCHANGED <<callbacks, history, clock, accepted, ev, tmp, ntrig, nreg, last>>
    /\ UNCHANGED appVars

\* The caller goes on after trigger returned.
TriggerReturn(t) ==
    /\ pc[t] = "returned"
    /\ pc' = [pc EXCEPT ![t] = "idle"]
    /\ UNCHANGED <<callbacks, history, clock, accepted, ev, tmp, idx, calls, ntrig, nreg, last>>
    /\ UNCHANGED appVars

BusStep(t) ==
    \/ \E k \in BusKinds, s \in Subscribers : Register(t, k, s)
    \/ \E k \in BusKinds : TriggerCall(t, k, [payload |-> "p"])
    \/ TriggerAppend(t)
    \/ TriggerCheck(t)
    \/ TriggerSlice(t)
    \/ TriggerStore(t)
    \/ TriggerDispatch(t)
    \/ TriggerReturn(t)

NextBus == BusStep(1)
SpecBus == InitBus /\ [][NextBus]_vars

\* Two threads of a multi-threaded host (one Streamlit script thread per
\* session) calling trigger on the module-level callback_manager.
ConcStep(t) ==
    \/ \E k \in BusKinds \cap CALLBACK_TYPES : TriggerCall(t, k, [payload |-> "p"])
    \/ TriggerAppend(t)
    \/ TriggerCheck(t)
    \/ TriggerSlice(t)
    \/ TriggerStore(t)
    \/ TriggerDispatch(t)
    \/ TriggerReturn(t)

NextConc == \E t \in Threads : ConcStep(t)
SpecConc == InitBus /\ [][NextConc]_vars

(***************************************************************************)
(* Text.  A text is a sequence of characters; a character outside ASCII    *)
(* is written by its name ("e_acute", "ar_ain").                           *)
(***************************************************************************)
UpperCase ==
    <<"A", "B", "C", "D", "E", "F", "G", "H", "I", "J", "K", "L", "M",
      "N", "O", "P", "Q", "R", "S", "T", "U", "V", "W", "X", "Y", "Z",
      "E_acute", "E_grave", "O_circumflex">>
LowerCase ==
    <<"a", "b", "c", "d", "e", "f", "g", "h", "i", "j", "k", "l", "m",
      "n", "o", "p", "q", "r", "s", "t", "u", "v", "w", "x", "y", "z",
      "e_acute", "e_grave", "o_circumflex">>

LowerChar(c) ==
    IF \E i \in 1..Len(UpperCase) : UpperCase[i] = c
    THEN LowerCase[CHOOSE i \in 1..Len(UpperCase) : UpperCase[i] = c]
    ELSE c

\* str.lower()
Lower(s) == [i \in 1..Len(s) |-> LowerChar(s[i])]

\* w in txt, for strings: w is a substring of txt
Contains(txt, w) ==
    \E i \in 1..(Len(txt) - Len(w) + 1) : SubSeq(txt, i, i + Len(w) - 1) = w

\* any(word in txt for word in words)
AnyIn(words, txt) == \E w \in words : Contains(txt, w)

\* txt.startswith(p)
StartsWith(txt, p) == Len(p) <= Len(txt) /\ SubSeq(txt, 1, Len(p)) = p

WhiteSpace == {" ", "\n", "\t"}
Punctuation == {"?", "!", ".", ",", ";", ":", "'", "-", "\""}

\* str.strip()
RECURSIVE StripLeft(_)
StripLeft(s) ==
    IF s # <<>> /\ Head(s) \in WhiteSpace THEN StripLeft(Tail(s)) ELSE s
RECURSIVE StripRight(_)
StripRight(s) ==
    IF s # <<>> /\ s[Len(s)] \in WhiteSpace
    THEN StripRight(SubSeq(s, 1, Len(s) - 1)) ELSE s
Strip(s) == StripRight(StripLeft(s))

(***************************************************************************)
(* modules/chat.py: the tables                                             *)
(***************************************************************************)
SupportedLanguages == {"fr", "en", "ar"}

\* What langdetect.detect can answer: the three supported tags and one
\* other tag.  detect_language answers "fr" when langdetect raises.
LanguageTags == {"fr", "en", "ar", "es"}

\* HEALTH_KEYWORDS["fr"], chat.py lines 15-37
HEALTH_KEYWORDS_fr ==
    { <<"c", "a", "n", "c", "e", "r">>,
      <<"s", "e", "i", "n">>,
      <<"t", "u", "m", "e", "u", "r">>,
      <<"m", "a", "m", "m", "a", "i", "r", "e">>,
      <<"s", "a", "n", "t", "e_acute">>,
      <<"m", "e_acute", "d", "e", "c", "i", "n">>,
      <<"m", "e_acute", "d", "i", "c", "a", "l">>,
      <<"h", "o_circumflex", "p", "i", "t", "a", "l">>,
      <<"m", "a", "l", "a", "d", "i", "e">>,
      <<"t", "r", "a", "i", "t", "e", "m", "e", "n", "t">>,
      <<"s", "y", "m", "p", "t", "o_circumflex", "m", "e">>,
      <<"d", "o", "u", "l", "e", "u", "r">>,
      <<"d", "e_acute", "p", "i", "s", "t", "a", "g", "e">>,
      <<"d", "i", "a", "g", "n", "o", "s", "t", "i", "c">>,
      <<"m", "e_acute", "d", "i", "c", "a", "m", "e", "n", "t">>,
      <<"c", "h", "i", "r", "u", "r", "g", "i", "e">>,
      <<"t", "h", "e_acute", "r", "a", "p", "i", "e">>,
      <<"r", "a", "d", "i", "o", "t", "h", "e_acute", "r", "a", "p", "i", "e">>,
      <<"c", "h", "i", "m", "i", "o", "t", "h", "e_acute", "r", "a", "p", "i", "e">>,
      <<"b", "e_acute", "n", "i", "n">>,
      <<"m", "a", "l", "i", "n">>,
      <<"m", "e_acute", "t", "a", "s", "t", "a", "s", "e">>,
      <<"c", "e", "l", "l", "u", "l", "e">>,
      <<"b", "i", "o", "p", "s", "i", "e">>,
      <<"m", "a", "m", "m", "o", "g", "r", "a", "p", "h", "i", "e">>,
      <<"e_acute", "c", "h", "o", "g", "r", "a", "p", "h", "i", "e">>,
      <<"p", "r", "e_acute", "v", "e", "n", "t", "i", "o", "n">>,
      <<"r", "i", "s", "q", "u", "e">>,
      <<"h", "o", "r", "m", "o", "n", "a", "l">>,
      <<"r", "e_acute", "c", "i", "d", "i", "v", "e">>,
      <<"g", "u", "e_acute", "r", "i", "s", "o", "n">>,
      <<"c", "o", "n", "s", "u", "l", "t", "e", "r">> }

\* HEALTH_KEYWORDS["en"], chat.py lines 15-37
HEALTH_KEYWORDS_en ==
    { <<"c", "a", "n", "c", "e", "r">>,
      <<"b", "r", "e", "a", "s", "t">>,
      <<"t", "u", "m", "o", "r">>,
      <<"h", "e", "a", "l", "t", "h">>,
      <<"d", "o", "c", "t", "o", "r">>,
      <<"m", "e", "d", "i", "c", "a", "l">>,
      <<"h", "o", "s", "p", "i", "t", "a", "l">>,
      <<"d", "i", "s", "e", "a", "s", "e">>,
      <<"t", "r", "e", "a", "t", "m", "e", "n", "t">>,
      <<"s", "y", "m", "p", "t", "o", "m">>,
      <<"p", "a", "i", "n">>,
      <<"s", "c", "r", "e", "e", "n", "i", "n", "g">>,
      <<"d", "i", "a", "g", "n", "o", "s", "i", "s">>,
      <<"m", "e", "d", "i", "c", "i", "n", "e">>,
      <<"s", "u", "r", "g", "e", "r", "y">>,
      <<"t", "h", "e", "r", "a", "p", "y">>,
      <<"r", "a", "d", "i", "o", "t", "h", "e", "r", "a", "p", "y">>,
      <<"c", "h", "e", "m", "o", "t", "h", "e", "r", "a", "p", "y">>,
      <<"b", "e", "n", "i", "g", "n">>,
      <<"m", "a", "l", "i", "g", "n", "a", "n", "t">>,
      <<"m", "e", "t", "a", "s", "t", "a", "s", "i", "s">>,
      <<"c", "e", "l", "l">>,
      <<"b", "i", "o", "p", "s", "y">>,
      <<"m", "a", "m", "m", "o", "g", "r", "a", "p", "h", "y">>,
      <<"u", "l", "t", "r", "a", "s", "o", "u", "n", "d">>,
      <<"p", "r", "e", "v", "e", "n", "t", "i", "o", "n">>,
      <<"r", "i", "s", "k">>,
      <<"h", "o", "r", "m", "o", "n", "a", "l">>,
      <<"r", "e", "c", "u", "r", "r", "e", "n", "c", "e">>,
      <<"r", "e", "c", "o", "v", "e", "r", "y">>,
      <<"c", "o", "n", "s", "u", "l", "t">> }

\* HEALTH_KEYWORDS["ar"], chat.py lines 15-37
HEALTH_KEYWORDS_ar ==
    { <<"ar_seen", "ar_reh", "ar_tah", "ar_alef", "ar_noon">>,
      <<"ar_theh", "ar_dal", "ar_yeh">>,
      <<"ar_waw", "ar_reh", "ar_meem">>,
      <<"ar_sad", "ar_hah", "ar_teh_marbuta">>,
      <<"ar_tah", "ar_beh", "ar_yeh", "ar_beh">>,
      <<"ar_tah", "ar_beh", "ar_yeh">>,
      <<"ar_meem", "ar_seen", "ar_teh", "ar_sheen", "ar_feh", "ar_alef_maksura">>,
      <<"ar_meem", "ar_reh", "ar_dad">>,
      <<"ar_ain", "ar_lam", "ar_alef", "ar_jeem">>,
      <<"ar_ain", "ar_reh", "ar_dad">>,
      <<"ar_alef_with_hamza_above", "ar_lam", "ar_meem">>,
      <<"ar_feh", "ar_hah", "ar_sad">>,
      <<"ar_teh", "ar_sheen", "ar_khah", "ar_yeh", "ar_sad">>,
      <<"ar_dal", "ar_waw", "ar_alef", "ar_hamza">>,
      <<"ar_jeem", "ar_reh", "ar_alef", "ar_hah", "ar_teh_marbuta">>,
      <<"ar_meem", "ar_ain", "ar_alef", "ar_lam", "ar_jeem", "ar_teh_marbuta">>,
      <<"ar_ain", "ar_lam", "ar_alef", "ar_jeem", " ", "ar_alef_with_hamza_below", "ar_sheen", "ar_ain", "ar_alef", "ar_ain", "ar_yeh">>,
      <<"ar_ain", "ar_lam", "ar_alef", "ar_jeem", " ", "ar_kaf", "ar_yeh", "ar_meem", "ar_yeh", "ar_alef", "ar_yeh_with_hamza_above", "ar_yeh">>,
      <<"ar_hah", "ar_meem", "ar_yeh", "ar_dal">>,
      <<"ar_khah", "ar_beh", "ar_yeh", "ar_theh">>,
      <<"ar_noon", "ar_qaf", "ar_yeh", "ar_lam", "ar_teh_marbuta">>,
      <<"ar_khah", "ar_lam", "ar_yeh", "ar_teh_marbuta">>,
      <<"ar_khah", "ar_zain", "ar_ain", "ar_teh_marbuta">>,
      <<"ar_teh", "ar_sad", "ar_waw", "ar_yeh", "ar_reh", " ", "ar_alef", "ar_lam", "ar_theh", "ar_dal", "ar_yeh">>,
      <<"ar_teh", "ar_sad", "ar_waw", "ar_yeh", "ar_reh", " ", "ar_beh", "ar_alef", "ar_lam", "ar_meem", "ar_waw", "ar_jeem", "ar_alef", "ar_teh", " ", "ar_feh", "ar_waw", "ar_qaf", " ", "ar_alef", "ar_lam", "ar_sad", "ar_waw", "ar_teh", "ar_yeh", "ar_teh_marbuta">>,
      <<"ar_waw", "ar_qaf", "ar_alef", "ar_yeh", "ar_teh_marbuta">>,
      <<"ar_khah", "ar_tah", "ar_reh">>,
      <<"ar_heh", "ar_reh", "ar_meem", "ar_waw", "ar_noon", "ar_yeh">>,
      <<"ar_alef", "ar_noon", "ar_teh", "ar_kaf", "ar_alef", "ar_seen">>,
      <<"ar_sheen", "ar_feh", "ar_alef", "ar_hamza">>,
      <<"ar_alef", "ar_seen", "ar_teh", "ar_sheen", "ar_alef", "ar_reh", "ar_teh_marbuta">> }

\* GREETINGS["fr"], chat.py lines 47-51
GREETINGS_fr ==
    { <<"b", "o", "n", "j", "o", "u", "r">>,
      <<"s", "a", "l", "u", "t">>,
      <<"b", "o", "n", "s", "o", "i", "r">>,
      <<"c", "o", "u", "c", "o", "u">>,
      <<"h", "e", "l", "l", "o">> }

\* GREETINGS["en"], chat.py lines 47-51
GREETINGS_en ==
    { <<"h", "i">>,
      <<"h", "e", "l", "l", "o">>,
      <<"h", "e", "y">>,
      <<"g", "o", "o", "d", " ", "m", "o", "r", "n", "i", "n", "g">>,
      <<"g", "o", "o", "d", " ", "e", "v", "e", "n", "i", "n", "g">> }

\* GREETINGS["ar"], chat.py lines 47-51
GREETINGS_ar ==
    { <<"ar_meem", "ar_reh", "ar_hah", "ar_beh", "ar_alef">>,
      <<"ar_alef_with_hamza_above", "ar_heh", "ar_lam", "ar_alef">>,
      <<"ar_alef", "ar_lam", "ar_seen", "ar_lam", "ar_alef", "ar_meem", " ", "ar_ain", "ar_lam", "ar_yeh", "ar_kaf", "ar_meem">>,
      <<"ar_alef", "ar_lam", "ar_seen", "ar_lam", "ar_alef", "ar_meem", " ", "ar_ain", "ar_lam", "ar_yeh", "ar_kaf", "ar_meem", " ", "ar_waw", "ar_reh", "ar_hah", "ar_meem", "ar_teh_marbuta", " ", "ar_alef", "ar_lam", "ar_lam", "ar_heh">> }

\* get_fallback_response, language fr: the words of the greeting branch
FB_fr_greeting ==
    { <<"b", "o", "n", "j", "o", "u", "r">>,
      <<"s", "a", "l", "u", "t">>,
      <<"c", "o", "u", "c", "o", "u">> }

\* get_fallback_response, language fr: the words of the thanks branch
FB_fr_thanks ==
    { <<"m", "e", "r", "c", "i">>,
      <<"r", "e", "m", "e", "r", "c", "i", "e">> }

\* get_fallback_response, language fr: the words of the symptoms branch
FB_fr_symptoms ==
    { <<"s", "y", "m", "p", "t", "o", "m", "e">>,
      <<"s", "y", "m", "p", "t", "o_circumflex", "m", "e">>,
      <<"s", "i", "g", "n", "e">> }

\* get_fallback_response, language fr: the words of the treatment branch
FB_fr_treatment ==
    { <<"t", "r", "a", "i", "t", "e", "m", "e", "n", "t">>,
      <<"s", "o", "i", "g", "n", "e", "r">>,
      <<"g", "u", "e_acute", "r", "i", "r">> }

\* get_fallback_response, language fr: the words of the risk branch
FB_fr_risk ==
    { <<"r", "i", "s", "q", "u", "e">>,
      <<"f", "a", "c", "t", "e", "u", "r">>,
      <<"p", "r", "e_acute", "v", "e", "n", "t", "i", "o", "n">> }

\* get_fallback_response, language en: the words of the greeting branch
FB_en_greeting ==
    { <<"h", "e", "l", "l", "o">>,
      <<"h", "i">>,
      <<"h", "e", "y">> }

\* get_fallback_response, language en: the words of the thanks branch
FB_en_thanks ==
    { <<"t", "h", "a", "n", "k">>,
      <<"t", "h", "a", "n", "k", "s">> }

\* get_fallback_response, language en: the words of the symptoms branch
FB_en_symptoms ==
    { <<"s", "y", "m", "p", "t", "o", "m">>,
      <<"s", "i", "g", "n">> }

\* get_fallback_response, language en: the words of the treatment branch
FB_en_treatment ==
    { <<"t", "r", "e", "a", "t", "m", "e", "n", "t">>,
      <<"c", "u", "r", "e">>,
      <<"h", "e", "a", "l">> }

\* get_fallback_response, language en: the words of the risk branch
FB_en_risk ==
    { <<"r", "i", "s", "k">>,
      <<"f", "a", "c", "t", "o", "r">>,
      <<"p", "r", "e", "v", "e", "n", "t", "i", "o", "n">> }

\* get_fallback_response, language ar: the words of the greeting branch
FB_ar_greeting ==
    { <<"ar_sad", "ar_beh", "ar_alef", "ar_hah", " ", "ar_alef", "ar_lam", "ar_khah", "ar_yeh", "ar_reh", " ">>,
      <<"ar_meem", "ar_reh", "ar_hah", "ar_beh", "ar_alef">>,
      <<"ar_seen", "ar_lam", "ar_alef", "ar_meem">>,
      <<"ar_alef_with_hamza_above", "ar_heh", "ar_lam", "ar_alef">> }

\* get_fallback_response, language ar: the words of the thanks branch
FB_ar_thanks ==
    { <<"ar_sheen", "ar_kaf", "ar_reh", "ar_alef">> }

\* get_fallback_response, language ar: the words of the symptoms branch
FB_ar_symptoms ==
    { <<"ar_ain", "ar_reh", "ar_dad">>,
      <<"ar_ain", "ar_lam", "ar_alef", "ar_meem", "ar_teh_marbuta">>,
      <<"ar_alef_with_hamza_above", "ar_ain", "ar_reh", "ar_alef", "ar_dad">> }

\* get_fallback_response, language ar: the words of the treatment branch
FB_ar_treatment ==
    { <<"ar_ain", "ar_lam", "ar_alef", "ar_jeem">>,
      <<"ar_sheen", "ar_feh", "ar_alef", "ar_hamza">> }

\* get_fallback_response, language ar: the words of the risk branch
FB_ar_risk ==
    { <<"ar_khah", "ar_tah", "ar_reh">>,
      <<"ar_ain", "ar_alef", "ar_meem", "ar_lam">>,
      <<"ar_waw", "ar_qaf", "ar_alef", "ar_yeh", "ar_teh_marbuta">> }

\* get_fallback_responses: the words of the cancer_info branch, chat.py lines 250-257
FBS_cancer_info ==
    { <<"c", "a", "n", "c", "e", "r">>,
      <<"s", "e", "i", "n">>,
      <<"m", "a", "m", "m", "a", "i", "r", "e">>,
      <<"b", "r", "e", "a", "s", "t">>,
      <<"ar_seen", "ar_reh", "ar_tah", "ar_alef", "ar_noon">>,
      <<"ar_theh", "ar_dal", "ar_yeh">> }

\* get_fallback_responses: the words of the benign_info branch, chat.py lines 250-257
FBS_benign_info ==
    { <<"b", "e_acute", "n", "i", "n">>,
      <<"b", "e", "n", "i", "n">>,
      <<"b", "e_acute", "n", "i", "g", "n", "e">>,
      <<"b", "e", "n", "i", "g", "n">>,
      <<"ar_hah", "ar_meem", "ar_yeh", "ar_dal">> }

\* get_fallback_responses: the words of the malignant_info branch, chat.py lines 250-257
FBS_malignant_info ==
    { <<"m", "a", "l", "i", "n">>,
      <<"m", "a", "l", "i", "g", "n", "e">>,
      <<"m", "a", "l", "i", "g", "n", "e", "s">>,
      <<"m", "a", "l", "i", "g", "n", "a", "n", "t">>,
      <<"ar_khah", "ar_beh", "ar_yeh", "ar_theh">> }

\* get_fallback_responses: the words of the treatment branch, chat.py lines 250-257
FBS_treatment ==
    { <<"t", "r", "a", "i", "t", "e", "m", "e", "n", "t">>,
      <<"s", "o", "i", "g", "n", "e", "r">>,
      <<"g", "u", "e_acute", "r", "i", "r">>,
      <<"g", "u", "e_acute", "r", "i", "s", "o", "n">>,
      <<"t", "r", "e", "a", "t", "m", "e", "n", "t">>,
      <<"t", "h", "e", "r", "a", "p", "y">>,
      <<"ar_ain", "ar_lam", "ar_alef", "ar_jeem">> }

HEALTH_KEYWORDS(lang) ==
    CASE lang = "fr" -> HEALTH_KEYWORDS_fr
      [] lang = "en" -> HEALTH_KEYWORDS_en
      [] lang = "ar" -> HEALTH_KEYWORDS_ar

\* A canned text of the program, named by the table (or function) that
\* holds it, the language and the entry.
Canned(table, lang, entry) == [src |-> table, lang |-> lang, entry |-> entry]

\* D.get(language, D["fr"]) for the dictionaries keyed by fr, en, ar
LangOrFr(language) == IF language \in SupportedLanguages THEN language ELSE "fr"

\* An off-topic message that is always the French one.
OFF_TOPIC_MESSAGES_French(language) == Canned("OFF_TOPIC_MESSAGES", "fr", "message")

OFF_TOPIC_MESSAGES(language) == Canned("OFF_TOPIC_MESSAGES", LangOrFr(language), "message")
GREETING_RESPONSES(language) == Canned("GREETING_RESPONSES", LangOrFr(language), "message")

(***************************************************************************)
(* modules/chat.py and modules/utils.py: the functions                     *)
(***************************************************************************)
\* clean_text: re.sub(r'[^\w\s\u0600-\u06FF]', '', text.lower()).strip()
clean_text(text) ==
    Strip(SelectSeq(Lower(text), LAMBDA c : c \notin Punctuation))

\* A greeting detection that tries English before French.
detect_greeting_language_EnglishFirst(text) ==
    LET cleaned == clean_text(text)
    IN  IF \E g \in GREETINGS_en : StartsWith(cleaned, g) THEN "en"
        ELSE IF \E g \in GREETINGS_fr : StartsWith(cleaned, g) THEN "fr"
        ELSE IF \E g \in GREETINGS_ar : StartsWith(cleaned, g) THEN "ar"
        ELSE "None"

\* detect_greeting_language: the first language, in the order of the
\* GREETINGS dictionary, with a greeting that starts the cleaned text.
detect_greeting_language(text) ==
    LET cleaned == clean_text(text)
    IN  IF \E g \in GREETINGS_fr : StartsWith(cleaned, g) THEN "fr"
        ELSE IF \E g \in GREETINGS_en : StartsWith(cleaned, g) THEN "en"
        ELSE IF \E g \in GREETINGS_ar : StartsWith(cleaned, g) THEN "ar"
        ELSE "None"

\* A topic gate that looks at the keywords of the given language only.
is_health_related_LanguageOnly(text, language) ==
    AnyIn(HEALTH_KEYWORDS(LangOrFr(language)), Lower(text))

\* is_health_related, chat.py lines 123-148
is_health_related(text, language) ==
    LET txt == Lower(text)
    IN  \/ AnyIn(HEALTH_KEYWORDS(LangOrFr(language)), txt)
        \/ \E lang \in {"fr", "en"} :
              lang # language /\ AnyIn(HEALTH_KEYWORDS(lang), txt)

\* get_fallback_response of modules/utils.py
get_fallback_response(query, language) ==
    LET q == Lower(query)
        pick(greeting, thanks, symptoms, treatment, risk) ==
            IF AnyIn(greeting, q) THEN "greeting"
            ELSE IF AnyIn(thanks, q) THEN "thanks"
            ELSE IF AnyIn(symptoms, q) THEN "symptoms"
            ELSE IF AnyIn(treatment, q) THEN "treatment"
            ELSE IF AnyIn(risk, q) THEN "risk"
            ELSE "default"
    IN  CASE language = "fr" ->
               Canned("get_fallback_response", "fr",
                      pick(FB_fr_greeting, FB_fr_thanks, FB_fr_symptoms,
                           FB_fr_treatment, FB_fr_risk))
          [] language = "en" ->
               Canned("get_fallback_response", "en",
                      pick(FB_en_greeting, FB_en_thanks, FB_en_symptoms,
                           FB_en_treatment, FB_en_risk))
          [] language = "ar" ->
               Canned("get_fallback_response", "ar",
                      pick(FB_ar_greeting, FB_ar_thanks, FB_ar_symptoms,
                           FB_ar_treatment, FB_ar_risk))
          [] OTHER -> Canned("get_fallback_response", "fr", "default")

\* get_fallback_responses of modules/chat.py
get_fallback_responses(query, language) ==
    LET q == Lower(query)
        lang == IF language \in SupportedLanguages THEN language ELSE "fr"
    IN  Canned("get_fallback_responses", lang,
               IF AnyIn(FBS_cancer_info, q) THEN "cancer_info"
               ELSE IF AnyIn(FBS_benign_info, q) THEN "benign_info"
               ELSE IF AnyIn(FBS_malignant_info, q) THEN "malignant_info"
               ELSE IF AnyIn(FBS_treatment, q) THEN "treatment"
               ELSE "default")

\* What llama_model.create_completion can do: raise, or return a text.
\* ""
T_empty ==
    <<>>

\* "Oui."
T_short ==
    <<"O", "u", "i", ".">>

\* "   Oui.     "
T_padded ==
    <<" ", " ", " ", "O", "u", "i", ".", " ", " ", " ", " ", " ">>

\* "La chirurgie est un traitement."
T_answer ==
    <<"L", "a", " ", "c", "h", "i", "r", "u", "r", "g", "i", "e", " ", "e", "s", "t", " ", "u", "n", " ", "t", "r", "a", "i", "t", "e", "m", "e", "n", "t", ".">>

GeneratedTexts == {T_empty, T_short, T_padded, T_answer}
GeneratorOutcomes ==
    {[kind |-> "raises", text |-> <<>>]}
        \cup {[kind |-> "returns", text |-> t] : t \in GeneratedTexts}

\* The answer of clean_llama_response(text, query), kept as the
\* application itself: the text it is given and the query.
CleanedAnswer(text, query) ==
    [src |-> "clean_llama_response", lang |-> "any",
     entry |-> [answer |-> text, query |-> query]]

\* A fallback taken from the table of get_fallback_responses instead.
FallbackOfLlama_OtherTable(query, language) ==
    get_fallback_responses(query, language)

\* The fallback get_llama_response returns, lines 197 and 204: the
\* get_fallback_response imported from modules.utils.
FallbackOfLlama(query, language) == get_fallback_response(query, language)

\* get_llama_response(llama_model, query, knowledge_base): language is
\* what detect_language answers at line 163, gen what create_completion
\* does at line 182.  The result: the response, whether an exception left
\* the function, and whether retrieval and the generator were invoked.
get_llama_response(query, language, gen) ==
    IF ~is_health_related(query, language)
    THEN [response |-> OFF_TOPIC_MESSAGES(language), raised |-> FALSE,
          retrieval |-> FALSE, generator |-> FALSE]
    ELSE LET text == Strip(gen.text)
         IN  [response |->
                 IF gen.kind = "raises" THEN FallbackOfLlama(query, language)
                 ELSE IF Len(text) < 10 THEN FallbackOfLlama(query, language)
                 ELSE CleanedAnswer(text, query),
              raised |-> FALSE, retrieval |-> TRUE, generator |-> TRUE]

\* A condition message that is always the French one.
ConditionMessage_French(condition, language) ==
    Canned(IF condition = "normal" THEN "benign_condition_message"
           ELSE "malignant_condition_message", "fr", "message")

\* get_bot_response, lines 287-299: the message for a benign ("normal") or
\* a malignant ("cancer") detected condition, in the detected language.
ConditionMessage(condition, language) ==
    Canned(IF condition = "normal" THEN "benign_condition_message"
           ELSE "malignant_condition_message", LangOrFr(language), "message")

\* get_bot_response(question, llama_model, knowledge_base,
\* detected_condition): language is the answer of detect_language at line
\* 280, language2 and gen those inside get_llama_response.
get_bot_response(question, llama_loaded, detected_condition, language, language2, gen) ==
    LET greeting_lang == detect_greeting_language(question)
        direct(r) == [response |-> r, raised |-> FALSE,
                      retrieval |-> FALSE, generator |-> FALSE]
    IN  IF greeting_lang # "None" THEN direct(GREETING_RESPONSES(greeting_lang))
        ELSE IF ~is_health_related(question, language)
             THEN direct(OFF_TOPIC_MESSAGES(language))
        ELSE IF detected_condition \in {"normal", "cancer"}
             THEN direct(ConditionMessage(detected_condition, language))
        ELSE IF llama_loaded
             THEN get_llama_response(question, language2, gen)
        ELSE direct(get_fallback_responses(question, language))

(***************************************************************************)
(* get_llama_response as a function of its inputs: the query, the answer   *)
(* of detect_language and the behaviour of the generator.                  *)
(***************************************************************************)
\* "Quel traitement ?"
Q_traitement ==
    <<"Q", "u", "e", "l", " ", "t", "r", "a", "i", "t", "e", "m", "e", "n", "t", " ", "?">>

\* "Traitement du cancer"
Q_traitement_cancer ==
    <<"T", "r", "a", "i", "t", "e", "m", "e", "n", "t", " ", "d", "u", " ", "c", "a", "n", "c", "e", "r">>

\* "tumeur b{e_acute}nigne ?"
Q_tumeur_benigne ==
    <<"t", "u", "m", "e", "u", "r", " ", "b", "e_acute", "n", "i", "g", "n", "e", " ", "?">>

\* "What is the weather today?"
Q_weather ==
    <<"W", "h", "a", "t", " ", "i", "s", " ", "t", "h", "e", " ", "w", "e", "a", "t", "h", "e", "r", " ", "t", "o", "d", "a", "y", "?">>

\* "which treatment"
Q_which_treatment ==
    <<"w", "h", "i", "c", "h", " ", "t", "r", "e", "a", "t", "m", "e", "n", "t">>

\* "Breast cancer risk"
Q_breast_risk ==
    <<"B", "r", "e", "a", "s", "t", " ", "c", "a", "n", "c", "e", "r", " ", "r", "i", "s", "k">>

\* "Bonjour"
Q_bonjour ==
    <<"B", "o", "n", "j", "o", "u", "r">>

\* "{ar_ain}{ar_lam}{ar_alef}{ar_jeem} {ar_seen}{ar_reh}{ar_tah}{ar_alef}{ar_noon}"
Q_ar_treatment ==
    <<"ar_ain", "ar_lam", "ar_alef", "ar_jeem", " ", "ar_seen", "ar_reh", "ar_tah", "ar_alef", "ar_noon">>

Queries ==
    {Q_traitement, Q_traitement_cancer, Q_tumeur_benigne, Q_weather,
     Q_which_treatment, Q_breast_risk, Q_bonjour, Q_ar_treatment}

InitLlama ==
    /\ callbacks = [k \in CALLBACK_TYPES |-> <<>>]
    /\ history = <<>>
    /\ accepted = <<>>
    /\ clock = 1
    /\ pc = [t \in Threads |-> "idle"]
    /\ ev = [t \in Threads |-> NoEvent]
    /\ tmp = [t \in Threads |-> <<>>]
    /\ idx = [t \in Threads |-> 0]
    /\ calls = [t \in Threads |-> <<>>]
    /\ ntrig = 0
    /\ nreg = 0
    /\ last = NoCall
    /\ ss = [none |-> TRUE]
    /\ \E q \in Queries, l \in LanguageTags, g \in GeneratorOutcomes :
         run = [pc |-> "call", query |-> q, language |-> l, gen |-> g,
                result |-> [none |-> TRUE]]

CallGetLlamaResponse ==
    /\ run.pc = "call"
    /\ run' = [run EXCEPT !.pc = "done",
                          !.result = get_llama_response(run.query, run.language, run.gen)]
    /\ UNCHANGED <<ss>>
    /\ UNCHANGED busVars

NextLlama == CallGetLlamaResponse
SpecLlama == InitLlama /\ [][NextLlama]_vars

(***************************************************************************)
(* is_health_related on its own: the texts and language tags it is given.  *)
(***************************************************************************)
\* The bus of a process in which nothing was triggered or registered.
BusAtRest ==
    /\ callbacks = [k \in CALLBACK_TYPES |-> <<>>]
    /\ history = <<>>
    /\ accepted = <<>>
    /\ clock = 1
    /\ pc = [t \in Threads |-> "idle"]
    /\ ev = [t \in Threads |-> NoEvent]
    /\ tmp = [t \in Threads |-> <<>>]
    /\ idx = [t \in Threads |-> 0]
    /\ calls = [t \in Threads |-> <<>>]
    /\ ntrig = 0
    /\ nreg = 0
    /\ last = NoCall

UpperChar(c) ==
    IF \E i \in 1..Len(LowerCase) : LowerCase[i] = c
    THEN UpperCase[CHOOSE i \in 1..Len(LowerCase) : LowerCase[i] = c]
    ELSE c

\* str.upper(), for the texts a user types in capitals
Upper(s) == [i \in 1..Len(s) |-> UpperChar(s[i])]

AllKeywords == HEALTH_KEYWORDS_fr \cup HEALTH_KEYWORDS_en \cup HEALTH_KEYWORDS_ar

\* Texts typed around a keyword: the keyword, the keyword in capitals, the
\* keyword inside a longer word, and the keyword broken by a space.
TopicTexts ==
    {kw : kw \in AllKeywords}
        \cup {Upper(kw) : kw \in AllKeywords}
        \cup {<<"x">> \o kw \o <<"y">> : kw \in AllKeywords}
        \cup {<<Head(kw), " ">> \o Tail(kw) : kw \in AllKeywords}
        \cup {<<>>, Q_weather, Q_bonjour}

InitTopic ==
    /\ BusAtRest
    /\ ss = [none |-> TRUE]
    /\ \E text \in TopicTexts, language \in LanguageTags :
         run = [pc |-> "call", text |-> text, language |-> language,
                result |-> FALSE]

CallIsHealthRelated ==
    /\ run.pc = "call"
    /\ run' = [run EXCEPT !.pc = "done",
                          !.result = is_health_related(run.text, run.language)]
    /\ UNCHANGED <<ss>>
    /\ UNCHANGED busVars

NextTopic == CallIsHealthRelated
SpecTopic == InitTopic /\ [][NextTopic]_vars

(***************************************************************************)
(* get_bot_response and get_llama_response on their own.                   *)
(***************************************************************************)
\* "Hello there"
Q_hello_there == <<"H", "e", "l", "l", "o", " ", "t", "h", "e", "r", "e">>
\* "Hiking weather?"
Q_hiking == <<"H", "i", "k", "i", "n", "g", " ", "w", "e", "a", "t", "h", "e", "r", "?">>
\* " !Hey"
Q_hey == <<" ", "!", "H", "e", "y">>
\* "Bonjour, quel traitement ?"
Q_bonjour_traitement ==
    <<"B", "o", "n", "j", "o", "u", "r", ",", " ", "q", "u", "e", "l", " ",
      "t", "r", "a", "i", "t", "e", "m", "e", "n", "t", " ", "?">>
\* "Good evening doctor"
Q_good_evening ==
    <<"G", "o", "o", "d", " ", "e", "v", "e", "n", "i", "n", "g", " ",
      "d", "o", "c", "t", "o", "r">>
\* "{ar_meem}{ar_reh}{ar_hah}{ar_beh}{ar_alef}"
Q_ar_marhaba == <<"ar_meem", "ar_reh", "ar_hah", "ar_beh", "ar_alef">>
\* "say bonjour"
Q_say_bonjour == <<"s", "a", "y", " ", "b", "o", "n", "j", "o", "u", "r">>
\* "Hola"
Q_hola == <<"H", "o", "l", "a">>

BotTexts ==
    {<<>>, Q_weather, Q_hola, Q_say_bonjour, Q_bonjour, Q_hello_there,
     Q_hiking, Q_hey, Q_good_evening, Q_ar_marhaba, Q_bonjour_traitement,
     Q_traitement, Q_which_treatment, Q_ar_treatment}

DetectedConditions == {"None", "normal", "cancer"}

InitBot ==
    /\ BusAtRest
    /\ ss = [none |-> TRUE]
    /\ \E text \in BotTexts, language \in LanguageTags, gen \in GeneratorOutcomes :
         \/ \E language2 \in LanguageTags, loaded \in BOOLEAN,
               condition \in DetectedConditions :
              run = [pc |-> "call", fn |-> "get_bot_response", text |-> text,
                     language |-> language, language2 |-> language2, gen |-> gen,
                     llama_loaded |-> loaded, detected_condition |-> condition,
                     result |-> [none |-> TRUE]]
         \/ run = [pc |-> "call", fn |-> "get_llama_response", text |-> text,
                   language |-> language, language2 |-> language, gen |-> gen,
                   llama_loaded |-> TRUE, detected_condition |-> "None",
                   result |-> [none |-> TRUE]]

\* get_bot_response(question, llama_model, knowledge_base, detected_condition)
CallGetBotResponse ==
    /\ run.pc = "call"
    /\ run.fn = "get_bot_response"
    /\ run' = [run EXCEPT !.pc = "done",
                          !.result = get_bot_response(run.text, run.llama_loaded,
                                                      run.detected_condition,
                                                      run.language, run.language2,
                                                      run.gen)]
    /\ UNCHANGED <<ss>>
    /\ UNCHANGED busVars

\* get_llama_response(llama_model, query, knowledge_base), called directly
CallGetLlamaDirect ==
    /\ run.pc = "call"
    /\ run.fn = "get_llama_response"
    /\ run' = [run EXCEPT !.pc = "done",
                          !.result = get_llama_response(run.text, run.language, run.gen)]
    /\ UNCHANGED <<ss>>
    /\ UNCHANGED busVars

NextBot == CallGetBotResponse \/ CallGetLlamaDirect
SpecBot == InitBot /\ [][NextBot]_vars



(***************************************************************************)
(* modules/utils.py: clean_llama_response.  The patterns of its re.sub     *)
(* calls are sequences of items; an item is a run of characters of a class *)
(* (its gap, taken as short as possible) followed by one of its literals   *)
(* (alts, tried in order) or by the lookahead (?=\. [A-Z]|$).              *)
(***************************************************************************)
SetMin(S) == CHOOSE x \in S : \A y \in S : x <= y
SetMax(S) == CHOOSE x \in S : \A y \in S : y <= x

\* The element of a set of one element.  A step of the code that works on
\* the result t of the step before is written Only({step(t) : t \in {before}}):
\* the result of each step is computed once, as an assignment does.
Only(S) == CHOOSE x \in S : TRUE

AsciiLower ==
    {"a", "b", "c", "d", "e", "f", "g", "h", "i", "j", "k", "l", "m",
     "n", "o", "p", "q", "r", "s", "t", "u", "v", "w", "x", "y", "z"}

\* ., \s, [^\.], [^\.\n] and [^>]
InClass(class, c) ==
    CASE class = "any" -> TRUE
      [] class = "space" -> c \in WhiteSpace
      [] class = "notdot" -> c # "."
      [] class = "notdotnl" -> c \notin {".", "\n"}
      [] class = "notgt" -> c # ">"

\* the literal lit stands in ls at position e
LitAt(ls, e, lit) ==
    /\ e + Len(lit) - 1 <= Len(ls)
    /\ ls[e] = lit[1]
    /\ SubSeq(ls, e, e + Len(lit) - 1) = lit

\* (?=\. [A-Z]|$) under IGNORECASE, on the lowercased text: at the end of
\* the text, before its last newline, or before ". " and a letter
LookOk(ls, e) ==
    \/ e = Len(ls) + 1
    \/ e = Len(ls) /\ ls[e] = "\n"
    \/ /\ e + 2 <= Len(ls)
       /\ ls[e] = "."
       /\ ls[e + 1] = " "
       /\ ls[e + 2] \in AsciiLower

\* The position after the match of items k.. that the regex engine finds
\* at position p of ls, or 0 when there is none.
RECURSIVE MatchFrom(_, _, _, _)
MatchFrom(items, k, ls, p) ==
    IF k > Len(items) THEN p
    ELSE LET it == items[k]
             limit == IF it.gap = "none" THEN p
                      ELSE SetMin({e \in p..Len(ls) : ~InClass(it.gap, ls[e])}
                                      \cup {Len(ls) + 1})
             Try(e) ==
                 IF it.look
                 THEN IF LookOk(ls, e) THEN MatchFrom(items, k + 1, ls, e) ELSE 0
                 ELSE LET ok == {a \in 1..Len(it.alts) :
                                    /\ LitAt(ls, e, it.alts[a])
                                    /\ MatchFrom(items, k + 1, ls,
                                                 e + Len(it.alts[a])) # 0}
                      IN  IF ok = {} THEN 0
                          ELSE MatchFrom(items, k + 1, ls,
                                         e + Len(it.alts[SetMin(ok)]))
             cands == {e \in p..limit : Try(e) # 0}
         IN  IF cands = {} THEN 0 ELSE Try(SetMin(cands))

\* re.sub(pattern, '', s): the leftmost matches, one after the other.
RECURSIVE SubFrom(_, _, _, _)
SubFrom(items, s, ls, p) ==
    IF \A i \in p..Len(s) : MatchFrom(items, 1, ls, i) = 0 THEN SubSeq(s, p, Len(s))
    ELSE Only({SubSeq(s, p, i - 1) \o SubFrom(items, s, ls, MatchFrom(items, 1, ls, i)) :
                 i \in {SetMin({j \in p..Len(s) : MatchFrom(items, 1, ls, j) # 0})}})

Sub(pat, s) ==
    Only({SubFrom(pat.items, s, ls, 1) : ls \in {IF pat.ic THEN Lower(s) ELSE s}})

\* the re.sub calls of a group, in the order of the source
RECURSIVE SubAll(_, _, _)
SubAll(pats, k, s) ==
    IF k > Len(pats) THEN s
    ELSE Only({SubAll(pats, k + 1, t) : t \in {Sub(pats[k], s)}})

\* str.replace(term, "") for the terms of a list, in order
RECURSIVE ReplaceAll(_, _, _)
ReplaceAll(terms, k, s) ==
    IF k > Len(terms) THEN s
    ELSE Only({ReplaceAll(terms, k + 1, t) :
                 t \in {SubFrom(<<[gap |-> "none", alts |-> <<terms[k]>>, look |-> FALSE]>>,
                                s, s, 1)}})

\* re.sub(ch{least,}, to, s) for a character ch: every run of at least
\* `least` times ch becomes `to`.
RECURSIVE CollapseFrom(_, _, _, _, _)
CollapseFrom(s, p, ch, least, to) ==
    LET chs == [i \in 1..least |-> ch]
        starts == {i \in p..Len(s) : LitAt(s, i, chs)}
    IN  IF starts = {} THEN SubSeq(s, p, Len(s))
        ELSE LET i == SetMin(starts)
                 e == SetMin({j \in i..Len(s) : s[j] # ch} \cup {Len(s) + 1})
             IN  SubSeq(s, p, i - 1) \o to \o CollapseFrom(s, e, ch, least, to)

\* the characters that \w does not match
NonWordChars ==
    WhiteSpace \cup Punctuation
        \cup {"(", ")", "*", "/", "<", ">", "[", "]", "backquote", "|", "~",
              "ar_fathatan", "ar_question_mark"}

\* \w: a character that is not one of the spaces and signs of the texts
IsWordChar(c) == c \notin NonWordChars

\* set(re.findall(r'\b\w+\b', s)): the maximal runs of word characters
Words(s) ==
    LET starts == {i \in 1..Len(s) :
                      IsWordChar(s[i]) /\ (i = 1 \/ ~IsWordChar(s[i - 1]))}
        EndOf(i) == SetMin({j \in i..Len(s) :
                               j = Len(s) \/ ~IsWordChar(s[j + 1])})
    IN  {SubSeq(s, i, EndOf(i)) : i \in starts}

\* re.split(r'\n\s*\n', s): the pieces between the separators, a separator
\* going from a newline to the last newline of the white space after it.
RECURSIVE SplitFrom(_, _)
SplitFrom(s, p) ==
    LET LastNewline(i) ==
            SetMax({k \in i..Len(s) :
                       s[k] = "\n" /\ \A x \in i..k : s[x] \in WhiteSpace})
        seps == {i \in p..Len(s) : s[i] = "\n" /\ LastNewline(i) > i}
    IN  IF seps = {} THEN <<SubSeq(s, p, Len(s))>>
        ELSE LET i == SetMin(seps)
             IN  <<SubSeq(s, p, i - 1)>> \o SplitFrom(s, LastNewline(i) + 1)

\* "\n\n".join(paragraphs)
RECURSIVE JoinParagraphs(_)
JoinParagraphs(paragraphs) ==
    IF paragraphs = <<>> THEN <<>>
    ELSE IF Len(paragraphs) = 1 THEN paragraphs[1]
    ELSE paragraphs[1] \o <<"\n", "\n">> \o JoinParagraphs(Tail(paragraphs))

\* the text returned for an empty or short answer, line 35
Apology ==
    <<"J", "e", " ", "n", "e", " ", "p", "e", "u", "x", " ", "p", "a", "s", " ", "g", "e_acute", "n",
        "e_acute", "r", "e", "r", " ", "u", "n", "e", " ", "r", "e_acute", "p", "o", "n", "s", "e",
        " ", "c", "o", "m", "p", "l", "e_grave", "t", "e", " ", "p", "o", "u", "r", " ", "l", "e", " ",
        "m", "o", "m", "e", "n", "t", ".">>

\* the re.sub calls of lines 38-48 (flags DOTALL, IGNORECASE): leaked instructions
InstructionPatterns ==
    <<
      \* line 38: INSTRUCTION (CRITIQUE|INTERNE|CRITICAL).*?Question:
      [ic |-> TRUE, items |-> <<
         [gap |-> "none", look |-> FALSE,
          alts |-> <<<<"i", "n", "s", "t", "r", "u", "c", "t", "i", "o", "n", " ", "c", "r", "i", "t", "i", "q", "u",
              "e">>, <<"i", "n", "s", "t", "r", "u", "c", "t", "i", "o", "n", " ", "i", "n", "t", "e", "r", "n", "e">>, <<"i", "n", "s", "t", "r", "u", "c", "t", "i", "o", "n", " ", "c", "r", "i", "t", "i", "c", "a",
              "l">>>>],
         [gap |-> "any", look |-> FALSE,
          alts |-> <<<<"q", "u", "e", "s", "t", "i", "o", "n", ":">>>>]>>],
      \* line 39: INTERNAL INSTRUCTION.*?Question:
      [ic |-> TRUE, items |-> <<
         [gap |-> "none", look |-> FALSE,
          alts |-> <<<<"i", "n", "t", "e", "r", "n", "a", "l", " ", "i", "n", "s", "t", "r", "u", "c", "t", "i", "o",
              "n">>>>],
         [gap |-> "any", look |-> FALSE,
          alts |-> <<<<"q", "u", "e", "s", "t", "i", "o", "n", ":">>>>]>>],
      \* line 40: {ar_teh}{ar_ain}{ar_lam}{ar_yeh}{ar_meem}{ar_alef}{ar_teh} ({ar_meem}{ar_heh}{ar_meem}{ar_teh_marbuta}|{ar_dal}{ar_alef}{ar_khah}{ar_lam}{ar_yeh}{ar_teh_marbuta}).*?{ar_alef}{ar_lam}{ar_seen}{ar_waw_with_hamza_above}{ar_alef}{ar_lam}:
      [ic |-> TRUE, items |-> <<
         [gap |-> "none", look |-> FALSE,
          alts |-> <<<<"ar_teh", "ar_ain", "ar_lam", "ar_yeh", "ar_meem", "ar_alef", "ar_teh", " ", "ar_meem", "ar_heh",
              "ar_meem", "ar_teh_marbuta">>, <<"ar_teh", "ar_ain", "ar_lam", "ar_yeh", "ar_meem", "ar_alef", "ar_teh", " ", "ar_dal", "ar_alef",
              "ar_khah", "ar_lam", "ar_yeh", "ar_teh_marbuta">>>>],
         [gap |-> "any", look |-> FALSE,
          alts |-> <<<<"ar_alef", "ar_lam", "ar_seen", "ar_waw_with_hamza_above", "ar_alef", "ar_lam", ":">>>>]>>],
      \* line 41: Question corrig{e_acute}e et reformul{e_acute}e\s*:.*?\n
      [ic |-> TRUE, items |-> <<
         [gap |-> "none", look |-> FALSE,
          alts |-> <<<<"q", "u", "e", "s", "t", "i", "o", "n", " ", "c", "o", "r", "r", "i", "g", "e_acute", "e", " ",
              "e", "t", " ", "r", "e", "f", "o", "r", "m", "u", "l", "e_acute", "e">>>>],
         [gap |-> "space", look |-> FALSE,
          alts |-> <<<<":">>>>],
         [gap |-> "any", look |-> FALSE,
          alts |-> <<<<"\n">>>>]>>],
      \* line 42: Corrected and rephrased question\s*:.*?\n
      [ic |-> TRUE, items |-> <<
         [gap |-> "none", look |-> FALSE,
          alts |-> <<<<"c", "o", "r", "r", "e", "c", "t", "e", "d", " ", "a", "n", "d", " ", "r", "e", "p", "h", "r",
              "a", "s", "e", "d", " ", "q", "u", "e", "s", "t", "i", "o", "n">>>>],
         [gap |-> "space", look |-> FALSE,
          alts |-> <<<<":">>>>],
         [gap |-> "any", look |-> FALSE,
          alts |-> <<<<"\n">>>>]>>],
      \* line 43: {ar_alef}{ar_lam}{ar_seen}{ar_waw_with_hamza_above}{ar_alef}{ar_lam} {ar_alef}{ar_lam}{ar_meem}{ar_sad}{ar_hah}{ar_hah} {ar_waw}{ar_alef}{ar_lam}{ar_meem}{ar_ain}{ar_alef}{ar_dal} {ar_sad}{ar_yeh}{ar_alef}{ar_ghain}{ar_teh}{ar_heh}\s*:.*?\n
      [ic |-> TRUE, items |-> <<
         [gap |-> "none", look |-> FALSE,
          alts |-> <<<<"ar_alef", "ar_lam", "ar_seen", "ar_waw_with_hamza_above", "ar_alef", "ar_lam", " ", "ar_alef",
              "ar_lam", "ar_meem", "ar_sad", "ar_hah", "ar_hah", " ", "ar_waw", "ar_alef", "ar_lam",
              "ar_meem", "ar_ain", "ar_alef", "ar_dal", " ", "ar_sad", "ar_yeh", "ar_alef", "ar_ghain",
              "ar_teh", "ar_heh">>>>],
         [gap |-> "space", look |-> FALSE,
          alts |-> <<<<":">>>>],
         [gap |-> "any", look |-> FALSE,
          alts |-> <<<<"\n">>>>]>>],
      \* line 46: J\'ai corrig{e_acute} et reformul{e_acute} votre question\.
      [ic |-> TRUE, items |-> <<
         [gap |-> "none", look |-> FALSE,
          alts |-> <<<<"j", "'", "a", "i", " ", "c", "o", "r", "r", "i", "g", "e_acute", " ", "e", "t", " ", "r", "e",
              "f", "o", "r", "m", "u", "l", "e_acute", " ", "v", "o", "t", "r", "e", " ", "q", "u",
              "e", "s", "t", "i", "o", "n", ".">>>>]>>],
      \* line 47: I have corrected and rephrased your question\.
      [ic |-> TRUE, items |-> <<
         [gap |-> "none", look |-> FALSE,
          alts |-> <<<<"i", " ", "h", "a", "v", "e", " ", "c", "o", "r", "r", "e", "c", "t", "e", "d", " ", "a", "n",
              "d", " ", "r", "e", "p", "h", "r", "a", "s", "e", "d", " ", "y", "o", "u", "r", " ", "q",
              "u", "e", "s", "t", "i", "o", "n", ".">>>>]>>],
      \* line 48: {ar_lam}{ar_qaf}{ar_dal} {ar_qaf}{ar_meem}{ar_teh} {ar_beh}{ar_teh}{ar_sad}{ar_hah}{ar_yeh}{ar_hah} {ar_waw}{ar_alef_with_hamza_below}{ar_ain}{ar_alef}{ar_dal}{ar_teh_marbuta} {ar_sad}{ar_yeh}{ar_alef}{ar_ghain}{ar_teh_marbuta} {ar_seen}{ar_waw_with_hamza_above}{ar_alef}{ar_lam}{ar_kaf}\.
      [ic |-> TRUE, items |-> <<
         [gap |-> "none", look |-> FALSE,
          alts |-> <<<<"ar_lam", "ar_qaf", "ar_dal", " ", "ar_qaf", "ar_meem", "ar_teh", " ", "ar_beh", "ar_teh",
              "ar_sad", "ar_hah", "ar_yeh", "ar_hah", " ", "ar_waw", "ar_alef_with_hamza_below",
              "ar_ain", "ar_alef", "ar_dal", "ar_teh_marbuta", " ", "ar_sad", "ar_yeh", "ar_alef",
              "ar_ghain", "ar_teh_marbuta", " ", "ar_seen", "ar_waw_with_hamza_above", "ar_alef",
              "ar_lam", "ar_kaf", ".">>>>]>>]
    >>

\* re.sub(r'<[^>]*>', '', answer), line 51
HtmlTag ==
      [ic |-> FALSE, items |-> <<
         [gap |-> "none", look |-> FALSE,
          alts |-> <<<<"<">>>>],
         [gap |-> "notgt", look |-> FALSE,
          alts |-> <<<<">">>>>]>>]

\* the characters of the class of line 52 (star, underscore, tilde, backquote, bar)
MarkupChars == {"*", "_", "~", "backquote", "|"}

\* incorrect_terms, lines 55-60
incorrect_terms ==
    << <<"g", "l", "a", "n", "d", "e", "s", " ", "s", "a", "l", "i", "v", "a", "i", "r", "e", "s">>,
       <<"c", "a", "n", "c", "e_acute", "r", "o", "-", "b", "r", "e", "a", "s", "t">>,
       <<"L", "e_acute", "u", "c", "o", "d", "e_acute", "s", "q", "u", "e", "s", " ", "d", "e", " ", "K",
           "a", "l", "l", "m", "a", "n", "n">>,
       <<"M", "e_acute", "l", "a", "n", "c", "o", "l", "o", "m", "a">>,
       <<"t", "i", "s", "s", "u", "e", " ", "m", "a", "m", "m", "a", "r", "y">>,
       <<"m", "o", "u", "s", "t", "a", "c", "e", "l", "l", "e", "s">>,
       <<"c", "a", "n", "c", "e_acute", "r", "i", "s", "a", "t", "i", "o", "n">>,
       <<"t", "u", "m", "o", "r", " ", "a", "n", "a", "p", "l", "a", "s", "t", "i", "q", "u", "e">>,
       <<"l", "e_acute", "c", "i", "t", "h", "i", "n", "e", "s">>,
       <<"c", "e", "l", "l", "u", "l", "e", "s", " ", "m", "o", "u", "s", "t", "a", "c", "e", "l", "l",
           "e", "s">>,
       <<"a", "n", "a", "p", "l", "a", "s", "t", "i", "q", "u", "e", " ", "i", "n", "t", "r", "a",
           "e_acute", "p", "i", "t", "h", "e_acute", "l", "i", "a", "l", "e">>,
       <<"t", "u", "m", "o", "r", "s", " ", "a", "n", "a", "p", "l", "a", "s", "t", "i", "q", "u", "e",
           "s">> >>

\* the alternatives of the re.search of line 89
PolitenessPhrases ==
    { <<"n", "'", "h", "e_acute", "s", "i", "t", "e", "z", " ", "p", "a", "s">>,
      <<"j", "e", " ", "s", "u", "i", "s", " ", "l", "a_grave">>,
      <<"e", "n", " ", "e", "s", "p", "e_acute", "r", "a", "n", "t">>,
      <<"j", "'", "e", "s", "p", "e_grave", "r", "e">>,
      <<"p", "o", "u", "r", " ", "t", "o", "u", "t", "e", " ", "q", "u", "e", "s", "t", "i", "o", "n">> }

\* the re.sub calls of lines 113-140 (flags IGNORECASE, DOTALL)
ClosingPatterns ==
    <<
      \* line 113: N\'h{e_acute}sitez[^\.\n]*?{a_grave} me poser[^\.\n]*?\.
      [ic |-> TRUE, items |-> <<
         [gap |-> "none", look |-> FALSE,
          alts |-> <<<<"n", "'", "h", "e_acute", "s", "i", "t", "e", "z">>>>],
         [gap |-> "notdotnl", look |-> FALSE,
          alts |-> <<<<"a_grave", " ", "m", "e", " ", "p", "o", "s", "e", "r">>>>],
         [gap |-> "notdotnl", look |-> FALSE,
          alts |-> <<<<".">>>>]>>],
      \* line 114: Nous sommes l{a_grave} pour t\'aider[^\.\n]*?\.
      [ic |-> TRUE, items |-> <<
         [gap |-> "none", look |-> FALSE,
          alts |-> <<<<"n", "o", "u", "s", " ", "s", "o", "m", "m", "e", "s", " ", "l", "a_grave", " ", "p", "o", "u",
              "r", " ", "t", "'", "a", "i", "d", "e", "r">>>>],
         [gap |-> "notdotnl", look |-> FALSE,
          alts |-> <<<<".">>>>]>>],
      \* line 115: Si tu n\'obtiens pas[^\.\n]*?\.
      [ic |-> TRUE, items |-> <<
         [gap |-> "none", look |-> FALSE,
          alts |-> <<<<"s", "i", " ", "t", "u", " ", "n", "'", "o", "b", "t", "i", "e", "n", "s", " ", "p", "a", "s">>>>],
         [gap |-> "notdotnl", look |-> FALSE,
          alts |-> <<<<".">>>>]>>],
      \* line 116: Vous pouvez aussi contacter[^\.\n]*?\.
      [ic |-> TRUE, items |-> <<
         [gap |-> "none", look |-> FALSE,
          alts |-> <<<<"v", "o", "u", "s", " ", "p", "o", "u", "v", "e", "z", " ", "a", "u", "s", "s", "i", " ", "c",
              "o", "n", "t", "a", "c", "t", "e", "r">>>>],
         [gap |-> "notdotnl", look |-> FALSE,
          alts |-> <<<<".">>>>]>>],
      \* line 117: Si j\'avais des r{e_acute}ponses[^\.\n]*?\.
      [ic |-> TRUE, items |-> <<
         [gap |-> "none", look |-> FALSE,
          alts |-> <<<<"s", "i", " ", "j", "'", "a", "v", "a", "i", "s", " ", "d", "e", "s", " ", "r", "e_acute", "p",
              "o", "n", "s", "e", "s">>>>],
         [gap |-> "notdotnl", look |-> FALSE,
          alts |-> <<<<".">>>>]>>],
      \* line 118: Je suis[^\.\n]*?{a_grave} votre service[^\.\n]*?\.
      [ic |-> TRUE, items |-> <<
         [gap |-> "none", look |-> FALSE,
          alts |-> <<<<"j", "e", " ", "s", "u", "i", "s">>>>],
         [gap |-> "notdotnl", look |-> FALSE,
          alts |-> <<<<"a_grave", " ", "v", "o", "t", "r", "e", " ", "s", "e", "r", "v", "i", "c", "e">>>>],
         [gap |-> "notdotnl", look |-> FALSE,
          alts |-> <<<<".">>>>]>>],
      \* line 119: n\'h{e_acute}sitez pas {a_grave} me poser[^\.\n]*?\.
      [ic |-> TRUE, items |-> <<
         [gap |-> "none", look |-> FALSE,
          alts |-> <<<<"n", "'", "h", "e_acute", "s", "i", "t", "e", "z", " ", "p", "a", "s", " ", "a_grave", " ", "m",
              "e", " ", "p", "o", "s", "e", "r">>>>],
         [gap |-> "notdotnl", look |-> FALSE,
          alts |-> <<<<".">>>>]>>],
      \* line 120: N\'h{e_acute}sitez pas {a_grave} me demander[^\.\n]*?\.
      [ic |-> TRUE, items |-> <<
         [gap |-> "none", look |-> FALSE,
          alts |-> <<<<"n", "'", "h", "e_acute", "s", "i", "t", "e", "z", " ", "p", "a", "s", " ", "a_grave", " ", "m",
              "e", " ", "d", "e", "m", "a", "n", "d", "e", "r">>>>],
         [gap |-> "notdotnl", look |-> FALSE,
          alts |-> <<<<".">>>>]>>],
      \* line 121: Je suis disponible[^\.\n]*?\.
      [ic |-> TRUE, items |-> <<
         [gap |-> "none", look |-> FALSE,
          alts |-> <<<<"j", "e", " ", "s", "u", "i", "s", " ", "d", "i", "s", "p", "o", "n", "i", "b", "l", "e">>>>],
         [gap |-> "notdotnl", look |-> FALSE,
          alts |-> <<<<".">>>>]>>],
      \* line 122: J\'esp{e_grave}re que cette [^\.\n]*? vous a aid{e_acute}[^\.\n]*?\.
      [ic |-> TRUE, items |-> <<
         [gap |-> "none", look |-> FALSE,
          alts |-> <<<<"j", "'", "e", "s", "p", "e_grave", "r", "e", " ", "q", "u", "e", " ", "c", "e", "t", "t", "e",
              " ">>>>],
         [gap |-> "notdotnl", look |-> FALSE,
          alts |-> <<<<" ", "v", "o", "u", "s", " ", "a", " ", "a", "i", "d", "e_acute">>>>],
         [gap |-> "notdotnl", look |-> FALSE,
          alts |-> <<<<".">>>>]>>],
      \* line 123: En esp{e_acute}rant avoir r{e_acute}pondu {a_grave} votre question[^\.\n]*?\.
      [ic |-> TRUE, items |-> <<
         [gap |-> "none", look |-> FALSE,
          alts |-> <<<<"e", "n", " ", "e", "s", "p", "e_acute", "r", "a", "n", "t", " ", "a", "v", "o", "i", "r", " ",
              "r", "e_acute", "p", "o", "n", "d", "u", " ", "a_grave", " ", "v", "o", "t", "r", "e",
              " ", "q", "u", "e", "s", "t", "i", "o", "n">>>>],
         [gap |-> "notdotnl", look |-> FALSE,
          alts |-> <<<<".">>>>]>>],
      \* line 124: Avez-vous d\'autres questions[^\.\n]*?\.
      [ic |-> TRUE, items |-> <<
         [gap |-> "none", look |-> FALSE,
          alts |-> <<<<"a", "v", "e", "z", "-", "v", "o", "u", "s", " ", "d", "'", "a", "u", "t", "r", "e", "s", " ",
              "q", "u", "e", "s", "t", "i", "o", "n", "s">>>>],
         [gap |-> "notdotnl", look |-> FALSE,
          alts |-> <<<<".">>>>]>>],
      \* line 127: En r{e_acute}sum{e_acute},[^\.]*?(?=\. [A-Z]|$)
      [ic |-> TRUE, items |-> <<
         [gap |-> "none", look |-> FALSE,
          alts |-> <<<<"e", "n", " ", "r", "e_acute", "s", "u", "m", "e_acute", ",">>>>],
         [gap |-> "notdot", look |-> TRUE,
          alts |-> <<>>]>>],
      \* line 128: En conclusion,[^\.]*?(?=\. [A-Z]|$)
      [ic |-> TRUE, items |-> <<
         [gap |-> "none", look |-> FALSE,
          alts |-> <<<<"e", "n", " ", "c", "o", "n", "c", "l", "u", "s", "i", "o", "n", ",">>>>],
         [gap |-> "notdot", look |-> TRUE,
          alts |-> <<>>]>>],
      \* line 131: Il est (donc |)important que vous consultiez un m{e_acute}decin[^\.]*?\.
      [ic |-> TRUE, items |-> <<
         [gap |-> "none", look |-> FALSE,
          alts |-> <<<<"i", "l", " ", "e", "s", "t", " ", "d", "o", "n", "c", " ", "i", "m", "p", "o", "r", "t", "a",
              "n", "t", " ", "q", "u", "e", " ", "v", "o", "u", "s", " ", "c", "o", "n", "s", "u", "l",
              "t", "i", "e", "z", " ", "u", "n", " ", "m", "e_acute", "d", "e", "c", "i", "n">>, <<"i", "l", " ", "e", "s", "t", " ", "i", "m", "p", "o", "r", "t", "a", "n", "t", " ", "q", "u",
              "e", " ", "v", "o", "u", "s", " ", "c", "o", "n", "s", "u", "l", "t", "i", "e", "z", " ",
              "u", "n", " ", "m", "e_acute", "d", "e", "c", "i", "n">>>>],
         [gap |-> "notdot", look |-> FALSE,
          alts |-> <<<<".">>>>]>>],
      \* line 132: vous devriez consulter un m{e_acute}decin[^\.]*?\.
      [ic |-> TRUE, items |-> <<
         [gap |-> "none", look |-> FALSE,
          alts |-> <<<<"v", "o", "u", "s", " ", "d", "e", "v", "r", "i", "e", "z", " ", "c", "o", "n", "s", "u", "l",
              "t", "e", "r", " ", "u", "n", " ", "m", "e_acute", "d", "e", "c", "i", "n">>>>],
         [gap |-> "notdot", look |-> FALSE,
          alts |-> <<<<".">>>>]>>],
      \* line 133: consultez un professionnel de sant{e_acute}[^\.]*?\.
      [ic |-> TRUE, items |-> <<
         [gap |-> "none", look |-> FALSE,
          alts |-> <<<<"c", "o", "n", "s", "u", "l", "t", "e", "z", " ", "u", "n", " ", "p", "r", "o", "f", "e", "s",
              "s", "i", "o", "n", "n", "e", "l", " ", "d", "e", " ", "s", "a", "n", "t", "e_acute">>>>],
         [gap |-> "notdot", look |-> FALSE,
          alts |-> <<<<".">>>>]>>],
      \* line 136: Il est (aussi |{e_acute}galement |)important de noter[^\.]*?\.
      [ic |-> TRUE, items |-> <<
         [gap |-> "none", look |-> FALSE,
          alts |-> <<<<"i", "l", " ", "e", "s", "t", " ", "a", "u", "s", "s", "i", " ", "i", "m", "p", "o", "r", "t",
              "a", "n", "t", " ", "d", "e", " ", "n", "o", "t", "e", "r">>, <<"i", "l", " ", "e", "s", "t", " ", "e_acute", "g", "a", "l", "e", "m", "e", "n", "t", " ", "i",
              "m", "p", "o", "r", "t", "a", "n", "t", " ", "d", "e", " ", "n", "o", "t", "e", "r">>, <<"i", "l", " ", "e", "s", "t", " ", "i", "m", "p", "o", "r", "t", "a", "n", "t", " ", "d", "e",
              " ", "n", "o", "t", "e", "r">>>>],
         [gap |-> "notdot", look |-> FALSE,
          alts |-> <<<<".">>>>]>>],
      \* line 139: il s\'agit (donc |)d\'un sujet (tr{e_grave}s |)vaste et complexe[^\.]*?\.
      [ic |-> TRUE, items |-> <<
         [gap |-> "none", look |-> FALSE,
          alts |-> <<<<"i", "l", " ", "s", "'", "a", "g", "i", "t", " ", "d", "o", "n", "c", " ", "d", "'", "u", "n",
              " ", "s", "u", "j", "e", "t", " ", "t", "r", "e_grave", "s", " ", "v", "a", "s", "t",
              "e", " ", "e", "t", " ", "c", "o", "m", "p", "l", "e", "x", "e">>, <<"i", "l", " ", "s", "'", "a", "g", "i", "t", " ", "d", "o", "n", "c", " ", "d", "'", "u", "n",
              " ", "s", "u", "j", "e", "t", " ", "v", "a", "s", "t", "e", " ", "e", "t", " ", "c", "o",
              "m", "p", "l", "e", "x", "e">>, <<"i", "l", " ", "s", "'", "a", "g", "i", "t", " ", "d", "'", "u", "n", " ", "s", "u", "j", "e",
              "t", " ", "t", "r", "e_grave", "s", " ", "v", "a", "s", "t", "e", " ", "e", "t", " ",
              "c", "o", "m", "p", "l", "e", "x", "e">>, <<"i", "l", " ", "s", "'", "a", "g", "i", "t", " ", "d", "'", "u", "n", " ", "s", "u", "j", "e",
              "t", " ", "v", "a", "s", "t", "e", " ", "e", "t", " ", "c", "o", "m", "p", "l", "e", "x",
              "e">>>>],
         [gap |-> "notdot", look |-> FALSE,
          alts |-> <<<<".">>>>]>>],
      \* line 140: Il n\'est pas possible dans ce contexte[^\.]*?\.
      [ic |-> TRUE, items |-> <<
         [gap |-> "none", look |-> FALSE,
          alts |-> <<<<"i", "l", " ", "n", "'", "e", "s", "t", " ", "p", "a", "s", " ", "p", "o", "s", "s", "i", "b",
              "l", "e", " ", "d", "a", "n", "s", " ", "c", "e", " ", "c", "o", "n", "t", "e", "x", "t",
              "e">>>>],
         [gap |-> "notdot", look |-> FALSE,
          alts |-> <<<<".">>>>]>>]
    >>

\* the alternatives of ^(R{e_acute}ponse|Answer|...)\s*:\s*, line 147, lowercased
AnswerPrefixes ==
    << <<"r", "e_acute", "p", "o", "n", "s", "e">>,
       <<"a", "n", "s", "w", "e", "r">>,
       <<"ar_alef_with_hamza_below", "ar_jeem", "ar_alef", "ar_beh", "ar_teh_marbuta">> >>

\* the leaked instructions, tags, markup and incorrect terms, lines 38-63
BeforeSelection(answer) ==
    Only({ReplaceAll(incorrect_terms, 1, a3) :
            a3 \in {SelectSeq(a2, LAMBDA c : c \notin MarkupChars) :
                      a2 \in {Sub(HtmlTag, a1) :
                                a1 \in {SubAll(InstructionPatterns, 1, answer)}}}})

\* significant_words, lines 67-69
SignificantWords(query) == {word \in Words(Lower(query)) : Len(word) > 3}

\* paragraphs, lines 72-73
Paragraphs(answer) ==
    Only({SelectSeq([i \in 1..Len(pieces) |-> Strip(pieces[i])], LAMBDA p : Len(p) > 20) :
            pieces \in {SplitFrom(answer, 1)}})

\* total_score of the paragraph of index i (from 0), lines 77-91
total_score(para, i, significant_words) ==
    LET para_lower == Lower(para)
        word_match_score == Cardinality(Words(para_lower) \cap significant_words) * 2
        position_score == (IF 3 - i > 0 THEN 3 - i ELSE 0) * 2
        politeness_penalty == IF AnyIn(PolitenessPhrases, para_lower) THEN 10 ELSE 0
    IN  word_match_score + position_score - politeness_penalty

\* The places of scored_paragraphs[:4] after the sort of line 97: the sort
\* is stable, so a paragraph comes after those of a higher score and after
\* the earlier ones of its own score.
BestPlaces(paragraphs, significant_words) ==
    LET Before(score, i) == {j \in 1..Len(paragraphs) :
                                \/ score[j] > score[i]
                                \/ score[j] = score[i] /\ j < i}
    IN  Only({{i \in 1..Len(paragraphs) : Cardinality(Before(score, i)) < 4} :
                score \in {<<>> \o [i \in 1..Len(paragraphs) |->
                                      total_score(paragraphs[i], i - 1, significant_words)]}})

\* ordered_paragraphs, lines 98-105
ordered_paragraphs(paragraphs, significant_words) ==
    Only({IF kept = <<>> /\ paragraphs # <<>> THEN <<paragraphs[1]>> ELSE kept :
            kept \in {SelectSeq(paragraphs, LAMBDA p : p \in best_paragraphs) :
                        best_paragraphs \in {{paragraphs[i] : i \in best} :
                            best \in {BestPlaces(paragraphs, significant_words)}}}})

\* lines 66-108: the answer rebuilt from the paragraphs kept for the query
SelectParagraphs(answer, query) ==
    IF query = <<>> THEN answer
    ELSE Only({JoinParagraphs(ordered_paragraphs(paragraphs, significant_words)) :
                 paragraphs \in {Paragraphs(answer)},
                 significant_words \in {SignificantWords(query)}})

\* re.sub(r'^(Reponse|Answer|...)\s*:\s*', '', answer, flags=re.IGNORECASE), line 147
StripAnswerPrefix(s) ==
    LET ls == Lower(s)
        SkipSpace(p) == SetMin({j \in p..Len(s) : s[j] \notin WhiteSpace} \cup {Len(s) + 1})
        found == {a \in 1..Len(AnswerPrefixes) :
                     /\ LitAt(ls, 1, AnswerPrefixes[a])
                     /\ SkipSpace(Len(AnswerPrefixes[a]) + 1) <= Len(s)
                     /\ s[SkipSpace(Len(AnswerPrefixes[a]) + 1)] = ":"}
    IN  IF found = {} THEN s
        ELSE LET colon == SkipSpace(Len(AnswerPrefixes[SetMin(found)]) + 1)
             IN  SubSeq(s, SkipSpace(colon + 1), Len(s))

\* the closing formulas, white space and prefix, lines 113-150
AfterSelection(answer) ==
    Only({Strip(a4) :
            a4 \in {StripAnswerPrefix(a3) :
                      a3 \in {CollapseFrom(a2, 1, " ", 2, <<" ">>) :
                                a2 \in {CollapseFrom(a1, 1, "\n", 3, <<"\n", "\n">>) :
                                          a1 \in {SubAll(ClosingPatterns, 1, answer)}}}}})

\* clean_llama_response(answer, query)
clean_llama_response(answer, query) ==
    IF Len(answer) < 10 THEN Apology
    ELSE Only({AfterSelection(selected) :
                 selected \in {SelectParagraphs(corrected, query) :
                                 corrected \in {BeforeSelection(answer)}}})

(***************************************************************************)
(* modules/utils.py: the instruction that generate_llama_prompt puts in    *)
(* the prompt.                                                             *)
(***************************************************************************)

\* the words left out of important_words, line 220
StopWords ==
    { <<"d", "a", "n", "s">>,
      <<"a", "v", "e", "c">>,
      <<"p", "o", "u", "r">>,
      <<"q", "u", "e", "l">>,
      <<"q", "u", "e", "l", "l", "e">>,
      <<"q", "u", "e", "l", "s">>,
      <<"q", "u", "e", "l", "l", "e", "s">>,
      <<"c", "o", "m", "m", "e", "n", "t">>,
      <<"e", "s", "t", "-", "c", "e">>,
      <<"s", "o", "n", "t">>,
      <<"m", "a", "i", "s">>,
      <<"a", "u", "s", "s", "i">>,
      <<"d", "o", "n", "c">>,
      <<"a", "l", "o", "r", "s">> }

\* specific_instruction for "fr", lines 224-235: "INSTRUCTION CRITIQUE:"
InstructionHeader_fr ==
    <<"I", "N", "S", "T", "R", "U", "C", "T", "I", "O", "N", " ", "C", "R", "I", "T", "I", "Q", "U",
        "E", ":">>

\* specific_instruction for "fr", lines 224-235: the text between the header, the query, the key concepts and the knowledge base
InstructionLines_fr ==
    << <<" ", "\n", "1", ".", " ", "R", "e_acute", "p", "o", "n", "d", "s", " ", "U", "N", "I", "Q", "U",
           "E", "M", "E", "N", "T", " ", "a_grave", " ", "l", "a", " ", "q", "u", "e", "s", "t", "i",
           "o", "n", " ", "s", "u", "i", "v", "a", "n", "t", "e", ":", " ", "\"">>,
       <<"\"", "\n", "2", ".", " ", "C", "o", "n", "c", "e", "n", "t", "r", "e", "-", "t", "o", "i", " ",
           "s", "u", "r", " ", "c", "e", "s", " ", "c", "o", "n", "c", "e", "p", "t", "s", " ", "c",
           "l", "e_acute", "s", ":", " ">>,
       <<"\n", "3", ".", " ", "F", "o", "u", "r", "n", "i", "s", " ", "u", "n", "e", " ", "r", "e_acute",
           "p", "o", "n", "s", "e", " ", "D", "E_acute", "T", "A", "I", "L", "L", "E_acute", "E", " ",
           "m", "a", "i", "s", " ", "S", "T", "R", "I", "C", "T", "E", "M", "E", "N", "T", " ", "P",
           "E", "R", "T", "I", "N", "E", "N", "T", "E", " ", "(", "p", "a", "s", " ", "d", "'", "i",
           "n", "f", "o", "r", "m", "a", "t", "i", "o", "n", " ", "h", "o", "r", "s", " ", "s", "u",
           "j", "e", "t", ")", "\n", "4", ".", " ", "S", "t", "r", "u", "c", "t", "u", "r", "e", " ",
           "t", "a", " ", "r", "e_acute", "p", "o", "n", "s", "e", " ", "e", "n", " ", "2", "-", "4",
           " ", "p", "a", "r", "a", "g", "r", "a", "p", "h", "e", "s", " ", "b", "i", "e", "n", " ",
           "o", "r", "g", "a", "n", "i", "s", "e_acute", "s", "\n", "5", ".", " ", "N", "e", " ", "m",
           "e", "n", "t", "i", "o", "n", "n", "e", " ", "P", "A", "S", " ", "q", "u", "e", " ", "t",
           "u", " ", "a", "s", " ", "r", "e", "c_cedilla", "u", " ", "c", "e", "s", " ", "i", "n", "s",
           "t", "r", "u", "c", "t", "i", "o", "n", "s", "\n", "6", ".", " ", "N", "e", " ", "t", "e",
           "r", "m", "i", "n", "e", " ", "P", "A", "S", " ", "p", "a", "r", " ", "d", "e", "s", " ",
           "f", "o", "r", "m", "u", "l", "e", "s", " ", "d", "e", " ", "p", "o", "l", "i", "t", "e",
           "s", "s", "e", " ", "o", "u", " ", "d", "e", "s", " ", "i", "n", "v", "i", "t", "a", "t",
           "i", "o", "n", "s", "\n", "\n", "V", "o", "i", "c", "i", " ", "l", "e", "s", " ", "i", "n",
           "f", "o", "r", "m", "a", "t", "i", "o", "n", "s", " ", "m", "e_acute", "d", "i", "c", "a",
           "l", "e", "s", " ", "f", "i", "a", "b", "l", "e", "s", " ", "s", "u", "r", " ", "l", "e",
           "s", "q", "u", "e", "l", "l", "e", "s", " ", "b", "a", "s", "e", "r", " ", "t", "a", " ",
           "r", "e_acute", "p", "o", "n", "s", "e", ":", "\n">> >>

\* specific_instruction for "fr": "Question:"
QuestionMarker_fr ==
    <<"Q", "u", "e", "s", "t", "i", "o", "n", ":">>

\* specific_instruction for "en", lines 237-248: "CRITICAL INSTRUCTION:"
InstructionHeader_en ==
    <<"C", "R", "I", "T", "I", "C", "A", "L", " ", "I", "N", "S", "T", "R", "U", "C", "T", "I", "O",
        "N", ":">>

\* specific_instruction for "en", lines 237-248: the text between the header, the query, the key concepts and the knowledge base
InstructionLines_en ==
    << <<" ", "\n", "1", ".", " ", "A", "n", "s", "w", "e", "r", " ", "O", "N", "L", "Y", " ", "t", "h",
           "e", " ", "f", "o", "l", "l", "o", "w", "i", "n", "g", " ", "q", "u", "e", "s", "t", "i",
           "o", "n", ":", " ", "\"">>,
       <<"\"", "\n", "2", ".", " ", "F", "o", "c", "u", "s", " ", "o", "n", " ", "t", "h", "e", "s", "e",
           " ", "k", "e", "y", " ", "c", "o", "n", "c", "e", "p", "t", "s", ":", " ">>,
       <<"\n", "3", ".", " ", "P", "r", "o", "v", "i", "d", "e", " ", "a", " ", "D", "E", "T", "A", "I",
           "L", "E", "D", " ", "b", "u", "t", " ", "S", "T", "R", "I", "C", "T", "L", "Y", " ", "R",
           "E", "L", "E", "V", "A", "N", "T", " ", "r", "e", "s", "p", "o", "n", "s", "e", " ", "(",
           "n", "o", " ", "o", "f", "f", "-", "t", "o", "p", "i", "c", " ", "i", "n", "f", "o", "r",
           "m", "a", "t", "i", "o", "n", ")", "\n", "4", ".", " ", "S", "t", "r", "u", "c", "t", "u",
           "r", "e", " ", "y", "o", "u", "r", " ", "a", "n", "s", "w", "e", "r", " ", "i", "n", " ",
           "2", "-", "4", " ", "w", "e", "l", "l", "-", "o", "r", "g", "a", "n", "i", "z", "e", "d",
           " ", "p", "a", "r", "a", "g", "r", "a", "p", "h", "s", "\n", "5", ".", " ", "D", "O", " ",
           "N", "O", "T", " ", "m", "e", "n", "t", "i", "o", "n", " ", "t", "h", "a", "t", " ", "y",
           "o", "u", " ", "r", "e", "c", "e", "i", "v", "e", "d", " ", "t", "h", "e", "s", "e", " ",
           "i", "n", "s", "t", "r", "u", "c", "t", "i", "o", "n", "s", "\n", "6", ".", " ", "D", "O",
           " ", "N", "O", "T", " ", "e", "n", "d", " ", "w", "i", "t", "h", " ", "p", "o", "l", "i",
           "t", "e", "n", "e", "s", "s", " ", "f", "o", "r", "m", "u", "l", "a", "s", " ", "o", "r",
           " ", "i", "n", "v", "i", "t", "a", "t", "i", "o", "n", "s", "\n", "\n", "H", "e", "r", "e",
           " ", "i", "s", " ", "t", "h", "e", " ", "r", "e", "l", "i", "a", "b", "l", "e", " ", "m",
           "e", "d", "i", "c", "a", "l", " ", "i", "n", "f", "o", "r", "m", "a", "t", "i", "o", "n",
           " ", "o", "n", " ", "w", "h", "i", "c", "h", " ", "t", "o", " ", "b", "a", "s", "e", " ",
           "y", "o", "u", "r", " ", "a", "n", "s", "w", "e", "r", ":", "\n">> >>

\* specific_instruction for "en": "Question:"
QuestionMarker_en ==
    <<"Q", "u", "e", "s", "t", "i", "o", "n", ":">>

\* specific_instruction for "ar", lines 250-261: "{ar_teh}{ar_ain}{ar_lam}{ar_yeh}{ar_meem}{ar_alef}{ar_teh} {ar_meem}{ar_heh}{ar_meem}{ar_teh_marbuta}:"
InstructionHeader_ar ==
    <<"ar_teh", "ar_ain", "ar_lam", "ar_yeh", "ar_meem", "ar_alef", "ar_teh", " ", "ar_meem", "ar_heh",
        "ar_meem", "ar_teh_marbuta", ":">>

\* specific_instruction for "ar", lines 250-261: the text between the header, the query, the key concepts and the knowledge base
InstructionLines_ar ==
    << <<" ", "\n", "1", ".", " ", "ar_alef_with_hamza_above", "ar_jeem", "ar_beh", " ", "ar_feh",
           "ar_qaf", "ar_tah", " ", "ar_ain", "ar_lam", "ar_alef_maksura", " ", "ar_alef", "ar_lam",
           "ar_seen", "ar_waw_with_hamza_above", "ar_alef", "ar_lam", " ", "ar_alef", "ar_lam",
           "ar_teh", "ar_alef", "ar_lam", "ar_yeh", ":", " ", "\"">>,
       <<"\"", "\n", "2", ".", " ", "ar_reh", "ar_kaf", "ar_zain", " ", "ar_ain", "ar_lam",
           "ar_alef_maksura", " ", "ar_heh", "ar_thal", "ar_heh", " ", "ar_alef", "ar_lam", "ar_meem",
           "ar_feh", "ar_alef", "ar_heh", "ar_yeh", "ar_meem", " ", "ar_alef", "ar_lam", "ar_reh",
           "ar_yeh_with_hamza_above", "ar_yeh", "ar_seen", "ar_yeh", "ar_teh_marbuta", ":", " ">>,
       <<"\n", "3", ".", " ", "ar_qaf", "ar_dal", "ar_meem", " ", "ar_alef_with_hamza_below", "ar_jeem",
           "ar_alef", "ar_beh", "ar_teh_marbuta", " ", "ar_meem", "ar_feh", "ar_sad", "ar_lam",
           "ar_teh_marbuta", " ", "ar_waw", "ar_lam", "ar_kaf", "ar_noon", " ", "ar_waw", "ar_theh",
           "ar_yeh", "ar_qaf", "ar_teh_marbuta", " ", "ar_alef", "ar_lam", "ar_sad", "ar_lam",
           "ar_teh_marbuta", " ", "ar_teh", "ar_meem", "ar_alef", "ar_meem", "ar_fathatan", "ar_alef",
           " ", "(", "ar_beh", "ar_dal", "ar_waw", "ar_noon", " ", "ar_meem", "ar_ain", "ar_lam",
           "ar_waw", "ar_meem", "ar_alef", "ar_teh", " ", "ar_khah", "ar_alef", "ar_reh", "ar_jeem",
           " ", "ar_alef", "ar_lam", "ar_meem", "ar_waw", "ar_dad", "ar_waw", "ar_ain", ")", "\n", "4",
           ".", " ", "ar_heh", "ar_yeh", "ar_kaf", "ar_lam", " ", "ar_alef_with_hamza_below",
           "ar_jeem", "ar_alef", "ar_beh", "ar_teh", "ar_kaf", " ", "ar_feh", "ar_yeh", " ", "2", "-",
           "4", " ", "ar_feh", "ar_qaf", "ar_reh", "ar_alef", "ar_teh", " ", "ar_meem", "ar_noon",
           "ar_zah", "ar_meem", "ar_teh_marbuta", " ", "ar_jeem", "ar_yeh", "ar_dal", "ar_fathatan",
           "ar_alef", "\n", "5", ".", " ", "ar_lam", "ar_alef", " ", "ar_teh", "ar_thal", "ar_kaf",
           "ar_reh", " ", "ar_alef_with_hamza_above", "ar_noon", "ar_kaf", " ", "ar_teh", "ar_lam",
           "ar_qaf", "ar_yeh", "ar_teh", " ", "ar_heh", "ar_thal", "ar_heh", " ", "ar_alef", "ar_lam",
           "ar_teh", "ar_ain", "ar_lam", "ar_yeh", "ar_meem", "ar_alef", "ar_teh", "\n", "6", ".", " ",
           "ar_lam", "ar_alef", " ", "ar_teh", "ar_noon", "ar_teh", "ar_heh", "ar_yeh", " ", "ar_beh",
           "ar_sad", "ar_yeh", "ar_ghain", " ", "ar_meem", "ar_jeem", "ar_alef", "ar_meem", "ar_lam",
           "ar_teh_marbuta", " ", "ar_alef_with_hamza_above", "ar_waw", " ", "ar_dal", "ar_ain",
           "ar_waw", "ar_alef", "ar_teh", "\n", "\n", "ar_alef_with_hamza_below", "ar_lam", "ar_yeh",
           "ar_kaf", " ", "ar_alef", "ar_lam", "ar_meem", "ar_ain", "ar_lam", "ar_waw", "ar_meem",
           "ar_alef", "ar_teh", " ", "ar_alef", "ar_lam", "ar_tah", "ar_beh", "ar_yeh",
           "ar_teh_marbuta", " ", "ar_alef", "ar_lam", "ar_meem", "ar_waw", "ar_theh", "ar_waw",
           "ar_qaf", "ar_teh_marbuta", " ", "ar_alef", "ar_lam", "ar_teh", "ar_yeh", " ", "ar_yeh",
           "ar_meem", "ar_kaf", "ar_noon", "ar_kaf", " ", "ar_alef", "ar_lam", "ar_alef", "ar_seen",
           "ar_teh", "ar_noon", "ar_alef", "ar_dal", " ", "ar_alef_with_hamza_below", "ar_lam",
           "ar_yeh", "ar_heh", "ar_alef", " ", "ar_feh", "ar_yeh", " ", "ar_alef_with_hamza_below",
           "ar_jeem", "ar_alef", "ar_beh", "ar_teh", "ar_kaf", ":", "\n">> >>

\* specific_instruction for "ar": "{ar_alef}{ar_lam}{ar_seen}{ar_waw_with_hamza_above}{ar_alef}{ar_lam}:"
QuestionMarker_ar ==
    <<"ar_alef", "ar_lam", "ar_seen", "ar_waw_with_hamza_above", "ar_alef", "ar_lam", ":">>

\* query.split(): the runs of characters between white space
RECURSIVE SplitWords(_, _)
SplitWords(s, p) ==
    LET starts == {i \in p..Len(s) : s[i] \notin WhiteSpace}
    IN  IF starts = {} THEN <<>>
        ELSE LET i == SetMin(starts)
                 e == SetMin({j \in i..Len(s) : s[j] \in WhiteSpace} \cup {Len(s) + 1})
             IN  <<SubSeq(s, i, e - 1)>> \o SplitWords(s, e)

\* important_words[:5], lines 219-220 and the slices of lines 226, 239, 252
important_words(query) ==
    LET longer == SelectSeq(SplitWords(query, 1),
                            LAMBDA w : Len(w) > 3 /\ Lower(w) \notin StopWords)
    IN  SubSeq(longer, 1, IF Len(longer) < 5 THEN Len(longer) ELSE 5)

\* ', '.join(words)
RECURSIVE JoinComma(_)
JoinComma(words) ==
    IF words = <<>> THEN <<>>
    ELSE IF Len(words) = 1 THEN words[1]
    ELSE words[1] \o <<",", " ">> \o JoinComma(Tail(words))

InstructionHeader(language) ==
    CASE language = "en" -> InstructionHeader_en
      [] language = "ar" -> InstructionHeader_ar
      [] OTHER -> InstructionHeader_fr

InstructionLines(language) ==
    CASE language = "en" -> InstructionLines_en
      [] language = "ar" -> InstructionLines_ar
      [] OTHER -> InstructionLines_fr

QuestionMarker(language) ==
    CASE language = "en" -> QuestionMarker_en
      [] language = "ar" -> QuestionMarker_ar
      [] OTHER -> QuestionMarker_fr

\* The instruction from its header through its question marker.
InstructionBlock(language, query, knowledge_base) ==
    InstructionHeader(language)
        \o InstructionLines(language)[1] \o query
        \o InstructionLines(language)[2] \o JoinComma(important_words(query))
        \o InstructionLines(language)[3] \o knowledge_base
        \o <<"\n", "\n">> \o QuestionMarker(language)

\* specific_instruction, lines 223-274
specific_instruction(language, query, knowledge_base) ==
    InstructionBlock(language, query, knowledge_base) \o <<" ">> \o query

(***************************************************************************)
(* clean_llama_response on its own: the raw texts of the generator and the *)
(* queries it is cleaned for.                                              *)
(***************************************************************************)

\* ""
R_empty ==
    <<>>

\* "**Bonjour**"
R_bold ==
    <<"*", "*", "B", "o", "n", "j", "o", "u", "r", "*", "*">>

\* "**La chirurgie** est un _traitement_ courant du cancer."
R_bold_answer ==
    <<"*", "*", "L", "a", " ", "c", "h", "i", "r", "u", "r", "g", "i", "e", "*", "*", " ", "e", "s",
        "t", " ", "u", "n", " ", "_", "t", "r", "a", "i", "t", "e", "m", "e", "n", "t", "_", " ", "c",
        "o", "u", "r", "a", "n", "t", " ", "d", "u", " ", "c", "a", "n", "c", "e", "r", ".">>

\* "<b>La chirurgie</b> est un traitement<br/> courant."
R_html ==
    <<"<", "b", ">", "L", "a", " ", "c", "h", "i", "r", "u", "r", "g", "i", "e", "<", "/", "b", ">",
        " ", "e", "s", "t", " ", "u", "n", " ", "t", "r", "a", "i", "t", "e", "m", "e", "n", "t", "<",
        "b", "r", "/", ">", " ", "c", "o", "u", "r", "a", "n", "t", ".">>

\* "R{e_acute}ponse : La chirurgie est un traitement courant."
R_prefix ==
    <<"R", "e_acute", "p", "o", "n", "s", "e", " ", ":", " ", "L", "a", " ", "c", "h", "i", "r", "u",
        "r", "g", "i", "e", " ", "e", "s", "t", " ", "u", "n", " ", "t", "r", "a", "i", "t", "e", "m",
        "e", "n", "t", " ", "c", "o", "u", "r", "a", "n", "t", ".">>

\* "ANSWER:Surgery is a common treatment."
R_prefix_en ==
    <<"A", "N", "S", "W", "E", "R", ":", "S", "u", "r", "g", "e", "r", "y", " ", "i", "s", " ", "a",
        " ", "c", "o", "m", "m", "o", "n", " ", "t", "r", "e", "a", "t", "m", "e", "n", "t", ".">>

\* "La chirurgie est un traitement courant.\n\nLa chirurgie est un traitement courant.\n\nLa chirurgie est un traitement courant.\n\nLa chirurgie est un traitement courant.\n\nLa chirurgie est un traitement courant."
R_same5 ==
    <<"L", "a", " ", "c", "h", "i", "r", "u", "r", "g", "i", "e", " ", "e", "s", "t", " ", "u", "n",
        " ", "t", "r", "a", "i", "t", "e", "m", "e", "n", "t", " ", "c", "o", "u", "r", "a", "n", "t",
        ".", "\n", "\n", "L", "a", " ", "c", "h", "i", "r", "u", "r", "g", "i", "e", " ", "e", "s",
        "t", " ", "u", "n", " ", "t", "r", "a", "i", "t", "e", "m", "e", "n", "t", " ", "c", "o", "u",
        "r", "a", "n", "t", ".", "\n", "\n", "L", "a", " ", "c", "h", "i", "r", "u", "r", "g", "i",
        "e", " ", "e", "s", "t", " ", "u", "n", " ", "t", "r", "a", "i", "t", "e", "m", "e", "n", "t",
        " ", "c", "o", "u", "r", "a", "n", "t", ".", "\n", "\n", "L", "a", " ", "c", "h", "i", "r",
        "u", "r", "g", "i", "e", " ", "e", "s", "t", " ", "u", "n", " ", "t", "r", "a", "i", "t", "e",
        "m", "e", "n", "t", " ", "c", "o", "u", "r", "a", "n", "t", ".", "\n", "\n", "L", "a", " ",
        "c", "h", "i", "r", "u", "r", "g", "i", "e", " ", "e", "s", "t", " ", "u", "n", " ", "t", "r",
        "a", "i", "t", "e", "m", "e", "n", "t", " ", "c", "o", "u", "r", "a", "n", "t", ".">>

\* "Le cancer du sein est une maladie frequente.\n\nLa chirurgie est le traitement le plus courant.\n\nJ'esp{e_grave}re que cette reponse vous aide.\n\nLa radiotherapie complete souvent la chirurgie.\n\nQuel traitement choisir depend du stade.\n\nLe traitement hormonal existe aussi."
R_six ==
    <<"L", "e", " ", "c", "a", "n", "c", "e", "r", " ", "d", "u", " ", "s", "e", "i", "n", " ", "e",
        "s", "t", " ", "u", "n", "e", " ", "m", "a", "l", "a", "d", "i", "e", " ", "f", "r", "e", "q",
        "u", "e", "n", "t", "e", ".", "\n", "\n", "L", "a", " ", "c", "h", "i", "r", "u", "r", "g",
        "i", "e", " ", "e", "s", "t", " ", "l", "e", " ", "t", "r", "a", "i", "t", "e", "m", "e", "n",
        "t", " ", "l", "e", " ", "p", "l", "u", "s", " ", "c", "o", "u", "r", "a", "n", "t", ".", "\n",
        "\n", "J", "'", "e", "s", "p", "e_grave", "r", "e", " ", "q", "u", "e", " ", "c", "e", "t",
        "t", "e", " ", "r", "e", "p", "o", "n", "s", "e", " ", "v", "o", "u", "s", " ", "a", "i", "d",
        "e", ".", "\n", "\n", "L", "a", " ", "r", "a", "d", "i", "o", "t", "h", "e", "r", "a", "p",
        "i", "e", " ", "c", "o", "m", "p", "l", "e", "t", "e", " ", "s", "o", "u", "v", "e", "n", "t",
        " ", "l", "a", " ", "c", "h", "i", "r", "u", "r", "g", "i", "e", ".", "\n", "\n", "Q", "u",
        "e", "l", " ", "t", "r", "a", "i", "t", "e", "m", "e", "n", "t", " ", "c", "h", "o", "i", "s",
        "i", "r", " ", "d", "e", "p", "e", "n", "d", " ", "d", "u", " ", "s", "t", "a", "d", "e", ".",
        "\n", "\n", "L", "e", " ", "t", "r", "a", "i", "t", "e", "m", "e", "n", "t", " ", "h", "o",
        "r", "m", "o", "n", "a", "l", " ", "e", "x", "i", "s", "t", "e", " ", "a", "u", "s", "s", "i",
        ".">>

\* "Oui, bien sur.\n\nNon.\n \nPeut-etre."
R_short_paragraphs ==
    <<"O", "u", "i", ",", " ", "b", "i", "e", "n", " ", "s", "u", "r", ".", "\n", "\n", "N", "o", "n",
        ".", "\n", " ", "\n", "P", "e", "u", "t", "-", "e", "t", "r", "e", ".">>

\* "La chirurgie est un traitement courant. N'h{e_acute}sitez pas {a_grave} demander plus.\nJe suis l{a_grave} pour vous aider. Bonne journee"
R_polite ==
    <<"L", "a", " ", "c", "h", "i", "r", "u", "r", "g", "i", "e", " ", "e", "s", "t", " ", "u", "n",
        " ", "t", "r", "a", "i", "t", "e", "m", "e", "n", "t", " ", "c", "o", "u", "r", "a", "n", "t",
        ".", " ", "N", "'", "h", "e_acute", "s", "i", "t", "e", "z", " ", "p", "a", "s", " ",
        "a_grave", " ", "d", "e", "m", "a", "n", "d", "e", "r", " ", "p", "l", "u", "s", ".", "\n",
        "J", "e", " ", "s", "u", "i", "s", " ", "l", "a_grave", " ", "p", "o", "u", "r", " ", "v", "o",
        "u", "s", " ", "a", "i", "d", "e", "r", ".", " ", "B", "o", "n", "n", "e", " ", "j", "o", "u",
        "r", "n", "e", "e">>

\* "Le traitement depend du stade. En r{e_acute}sum{e_acute}, la chirurgie est courante. Il existe aussi la chimiotherapie"
R_resume ==
    <<"L", "e", " ", "t", "r", "a", "i", "t", "e", "m", "e", "n", "t", " ", "d", "e", "p", "e", "n",
        "d", " ", "d", "u", " ", "s", "t", "a", "d", "e", ".", " ", "E", "n", " ", "r", "e_acute", "s",
        "u", "m", "e_acute", ",", " ", "l", "a", " ", "c", "h", "i", "r", "u", "r", "g", "i", "e", " ",
        "e", "s", "t", " ", "c", "o", "u", "r", "a", "n", "t", "e", ".", " ", "I", "l", " ", "e", "x",
        "i", "s", "t", "e", " ", "a", "u", "s", "s", "i", " ", "l", "a", " ", "c", "h", "i", "m", "i",
        "o", "t", "h", "e", "r", "a", "p", "i", "e">>

\* "La chirurgie est courante. Il est donc important que vous consultiez un m{e_acute}decin rapidement. Merci"
R_consult ==
    <<"L", "a", " ", "c", "h", "i", "r", "u", "r", "g", "i", "e", " ", "e", "s", "t", " ", "c", "o",
        "u", "r", "a", "n", "t", "e", ".", " ", "I", "l", " ", "e", "s", "t", " ", "d", "o", "n", "c",
        " ", "i", "m", "p", "o", "r", "t", "a", "n", "t", " ", "q", "u", "e", " ", "v", "o", "u", "s",
        " ", "c", "o", "n", "s", "u", "l", "t", "i", "e", "z", " ", "u", "n", " ", "m", "e_acute", "d",
        "e", "c", "i", "n", " ", "r", "a", "p", "i", "d", "e", "m", "e", "n", "t", ".", " ", "M", "e",
        "r", "c", "i">>

\* "Les cellules moustacelles et la canc{e_acute}risation sont   rares.\n\n\n\nLa chirurgie reste courante."
R_terms ==
    <<"L", "e", "s", " ", "c", "e", "l", "l", "u", "l", "e", "s", " ", "m", "o", "u", "s", "t", "a",
        "c", "e", "l", "l", "e", "s", " ", "e", "t", " ", "l", "a", " ", "c", "a", "n", "c", "e_acute",
        "r", "i", "s", "a", "t", "i", "o", "n", " ", "s", "o", "n", "t", " ", " ", " ", "r", "a", "r",
        "e", "s", ".", "\n", "\n", "\n", "\n", "L", "a", " ", "c", "h", "i", "r", "u", "r", "g", "i",
        "e", " ", "r", "e", "s", "t", "e", " ", "c", "o", "u", "r", "a", "n", "t", "e", ".">>

\* "Question corrig{e_acute}e et reformul{e_acute}e : Quel traitement ?\nLa chirurgie est un traitement courant."
R_leak ==
    <<"Q", "u", "e", "s", "t", "i", "o", "n", " ", "c", "o", "r", "r", "i", "g", "e_acute", "e", " ",
        "e", "t", " ", "r", "e", "f", "o", "r", "m", "u", "l", "e_acute", "e", " ", ":", " ", "Q", "u",
        "e", "l", " ", "t", "r", "a", "i", "t", "e", "m", "e", "n", "t", " ", "?", "\n", "L", "a", " ",
        "c", "h", "i", "r", "u", "r", "g", "i", "e", " ", "e", "s", "t", " ", "u", "n", " ", "t", "r",
        "a", "i", "t", "e", "m", "e", "n", "t", " ", "c", "o", "u", "r", "a", "n", "t", ".">>

\* "INTERNAL INSTRUCTION do not show. Question: Surgery is a common treatment."
R_internal ==
    <<"I", "N", "T", "E", "R", "N", "A", "L", " ", "I", "N", "S", "T", "R", "U", "C", "T", "I", "O",
        "N", " ", "d", "o", " ", "n", "o", "t", " ", "s", "h", "o", "w", ".", " ", "Q", "u", "e", "s",
        "t", "i", "o", "n", ":", " ", "S", "u", "r", "g", "e", "r", "y", " ", "i", "s", " ", "a", " ",
        "c", "o", "m", "m", "o", "n", " ", "t", "r", "e", "a", "t", "m", "e", "n", "t", ".">>

\* "Quel traitement pour le cancer ?"
BlockQuery_fr ==
    <<"Q", "u", "e", "l", " ", "t", "r", "a", "i", "t", "e", "m", "e", "n", "t", " ", "p", "o", "u",
        "r", " ", "l", "e", " ", "c", "a", "n", "c", "e", "r", " ", "?">>

\* "La chirurgie est courante."
BlockKnowledge_fr ==
    <<"L", "a", " ", "c", "h", "i", "r", "u", "r", "g", "i", "e", " ", "e", "s", "t", " ", "c", "o",
        "u", "r", "a", "n", "t", "e", ".">>

\* "La chirurgie est un traitement courant."
BlockAnswer_fr ==
    <<"L", "a", " ", "c", "h", "i", "r", "u", "r", "g", "i", "e", " ", "e", "s", "t", " ", "u", "n",
        " ", "t", "r", "a", "i", "t", "e", "m", "e", "n", "t", " ", "c", "o", "u", "r", "a", "n", "t",
        ".">>

\* "Which treatment works best?"
BlockQuery_en ==
    <<"W", "h", "i", "c", "h", " ", "t", "r", "e", "a", "t", "m", "e", "n", "t", " ", "w", "o", "r",
        "k", "s", " ", "b", "e", "s", "t", "?">>

\* "Surgery is common."
BlockKnowledge_en ==
    <<"S", "u", "r", "g", "e", "r", "y", " ", "i", "s", " ", "c", "o", "m", "m", "o", "n", ".">>

\* "Surgery is a common treatment."
BlockAnswer_en ==
    <<"S", "u", "r", "g", "e", "r", "y", " ", "i", "s", " ", "a", " ", "c", "o", "m", "m", "o", "n",
        " ", "t", "r", "e", "a", "t", "m", "e", "n", "t", ".">>

\* "{ar_ain}{ar_lam}{ar_alef}{ar_jeem} {ar_seen}{ar_reh}{ar_tah}{ar_alef}{ar_noon} {ar_alef}{ar_lam}{ar_theh}{ar_dal}{ar_yeh}"
BlockQuery_ar ==
    <<"ar_ain", "ar_lam", "ar_alef", "ar_jeem", " ", "ar_seen", "ar_reh", "ar_tah", "ar_alef",
        "ar_noon", " ", "ar_alef", "ar_lam", "ar_theh", "ar_dal", "ar_yeh">>

\* "{ar_alef}{ar_lam}{ar_jeem}{ar_reh}{ar_alef}{ar_hah}{ar_teh_marbuta} {ar_ain}{ar_lam}{ar_alef}{ar_jeem}."
BlockKnowledge_ar ==
    <<"ar_alef", "ar_lam", "ar_jeem", "ar_reh", "ar_alef", "ar_hah", "ar_teh_marbuta", " ", "ar_ain",
        "ar_lam", "ar_alef", "ar_jeem", ".">>

\* "{ar_alef}{ar_lam}{ar_jeem}{ar_reh}{ar_alef}{ar_hah}{ar_teh_marbuta} {ar_ain}{ar_lam}{ar_alef}{ar_jeem} {ar_sheen}{ar_alef}{ar_yeh_with_hamza_above}{ar_ain} {ar_lam}{ar_seen}{ar_reh}{ar_tah}{ar_alef}{ar_noon} {ar_alef}{ar_lam}{ar_theh}{ar_dal}{ar_yeh}."
BlockAnswer_ar ==
    <<"ar_alef", "ar_lam", "ar_jeem", "ar_reh", "ar_alef", "ar_hah", "ar_teh_marbuta", " ", "ar_ain",
        "ar_lam", "ar_alef", "ar_jeem", " ", "ar_sheen", "ar_alef", "ar_yeh_with_hamza_above",
        "ar_ain", " ", "ar_lam", "ar_seen", "ar_reh", "ar_tah", "ar_alef", "ar_noon", " ", "ar_alef",
        "ar_lam", "ar_theh", "ar_dal", "ar_yeh", ".">>

\* A prompt that the generator repeats before its answer: the query and
\* knowledge base of the prompt, and the answer that follows it.
Repeated(language) ==
    CASE language = "fr" ->
           [query |-> BlockQuery_fr, knowledge |-> BlockKnowledge_fr, answer |-> BlockAnswer_fr]
      [] language = "en" ->
           [query |-> BlockQuery_en, knowledge |-> BlockKnowledge_en, answer |-> BlockAnswer_en]
      [] language = "ar" ->
           [query |-> BlockQuery_ar, knowledge |-> BlockKnowledge_ar, answer |-> BlockAnswer_ar]

RepeatedBlock(language) ==
    InstructionBlock(language, Repeated(language).query, Repeated(language).knowledge)

RepeatedInstruction(language) ==
    specific_instruction(language, Repeated(language).query, Repeated(language).knowledge)
        \o <<"\n">> \o Repeated(language).answer

RawTexts ==
    {[text |-> t, block |-> "none", instruction |-> <<>>] :
        t \in {R_empty, R_bold, R_bold_answer, R_html, R_prefix, R_prefix_en,
               R_same5, R_six, R_short_paragraphs, R_polite, R_resume,
               R_consult, R_terms, R_leak, R_internal}}
        \cup {[text |-> RepeatedInstruction(l), block |-> l,
               instruction |-> RepeatedBlock(l)] : l \in SupportedLanguages}

CleanQueries == {<<>>, Q_traitement, Q_which_treatment, Q_ar_treatment}

InitClean ==
    /\ BusAtRest
    /\ ss = [none |-> TRUE]
    /\ \E raw \in RawTexts, query \in CleanQueries :
         run = [pc |-> "call", raw |-> raw.text, block |-> raw.block,
                instruction |-> raw.instruction,
                query |-> query, paragraphs |-> <<>>, kept |-> <<>>,
                once |-> <<>>, twice |-> <<>>]

\* clean_llama_response(raw, query), and once more on its own result;
\* paragraphs and kept are the lists of lines 73 and 101 of the first call
CallCleanLlamaResponse ==
    /\ run.pc = "call"
    /\ \E once \in {clean_llama_response(run.raw, run.query)},
          paragraphs \in {IF Len(run.raw) >= 10 /\ run.query # <<>>
                          THEN Paragraphs(BeforeSelection(run.raw))
                          ELSE <<>>} :
         run' = [run EXCEPT
                   !.pc = "done",
                   !.paragraphs = paragraphs,
                   !.kept = ordered_paragraphs(paragraphs, SignificantWords(run.query)),
                   !.once = once,
                   !.twice = clean_llama_response(once, run.query)]
    /\ UNCHANGED <<ss>>
    /\ UNCHANGED busVars

NextClean == CallCleanLlamaResponse
SpecClean == InitClean /\ [][NextClean]_vars

(***************************************************************************)
(* modules/knowledge.py: extract_relevant_knowledge.                       *)
(***************************************************************************)

\* the query words and the keywords of language "fr", lines 91-98
Topics_fr ==
    << [words |-> {<<"s", "y", "m", "p", "t", "o", "m", "e">>,
                   <<"s", "y", "m", "p", "t", "o_circumflex", "m", "e">>,
                   <<"s", "i", "g", "n", "e">>},
        keywords |-> {<<"s", "y", "m", "p", "t", "o_circumflex", "m", "e">>,
                      <<"s", "i", "g", "n", "e">>,
                      <<"c", "a", "r", "a", "c", "t", "e_acute", "r", "i", "s", "t", "i", "q", "u", "e">>,
                      <<"m", "a", "n", "i", "f", "e", "s", "t", "a", "t", "i", "o", "n">>,
                      <<"i", "n", "d", "i", "c", "a", "t", "i", "o", "n">>}],
       [words |-> {<<"t", "r", "a", "i", "t", "e", "m", "e", "n", "t">>,
                   <<"s", "o", "i", "g", "n", "e", "r">>,
                   <<"g", "u", "e_acute", "r", "i", "r">>},
        keywords |-> {<<"t", "r", "a", "i", "t", "e", "m", "e", "n", "t">>,
                      <<"t", "h", "e_acute", "r", "a", "p", "i", "e">>,
                      <<"s", "o", "i", "n">>,
                      <<"g", "u", "e_acute", "r", "i", "s", "o", "n">>,
                      <<"c", "h", "i", "r", "u", "r", "g", "i", "e">>,
                      <<"r", "a", "d", "i", "o", "t", "h", "e_acute", "r", "a", "p", "i", "e">>,
                      <<"c", "h", "i", "m", "i", "o", "t", "h", "e_acute", "r", "a", "p", "i", "e">>}],
       [words |-> {<<"r", "i", "s", "q", "u", "e">>,
                   <<"f", "a", "c", "t", "e", "u", "r">>,
                   <<"p", "r", "e_acute", "v", "e", "n", "t", "i", "o", "n">>},
        keywords |-> {<<"r", "i", "s", "q", "u", "e">>,
                      <<"f", "a", "c", "t", "e", "u", "r">>,
                      <<"p", "r", "e_acute", "v", "e", "n", "t", "i", "o", "n">>,
                      <<"d", "e_acute", "p", "i", "s", "t", "a", "g", "e">>,
                      <<"p", "r", "e_acute", "d", "i", "s", "p", "o", "s", "i", "t", "i", "o", "n">>}],
       [words |-> {<<"d", "i", "a", "g", "n", "o", "s", "t", "i", "c">>,
                   <<"d", "e_acute", "t", "e", "c", "t", "i", "o", "n">>,
                   <<"t", "e", "s", "t">>},
        keywords |-> {<<"d", "i", "a", "g", "n", "o", "s", "t", "i", "c">>,
                      <<"d", "e_acute", "t", "e", "c", "t", "i", "o", "n">>,
                      <<"t", "e", "s", "t">>,
                      <<"e", "x", "a", "m", "e", "n">>,
                      <<"m", "a", "m", "m", "o", "g", "r", "a", "p", "h", "i", "e">>,
                      <<"b", "i", "o", "p", "s", "i", "e">>}] >>

\* the query words and the keywords of language "en", lines 100-107
Topics_en ==
    << [words |-> {<<"s", "y", "m", "p", "t", "o", "m">>,
                   <<"s", "i", "g", "n">>},
        keywords |-> {<<"s", "y", "m", "p", "t", "o", "m">>,
                      <<"s", "i", "g", "n">>,
                      <<"c", "h", "a", "r", "a", "c", "t", "e", "r", "i", "s", "t", "i", "c">>,
                      <<"m", "a", "n", "i", "f", "e", "s", "t", "a", "t", "i", "o", "n">>,
                      <<"i", "n", "d", "i", "c", "a", "t", "i", "o", "n">>}],
       [words |-> {<<"t", "r", "e", "a", "t", "m", "e", "n", "t">>,
                   <<"c", "u", "r", "e">>,
                   <<"h", "e", "a", "l">>},
        keywords |-> {<<"t", "r", "e", "a", "t", "m", "e", "n", "t">>,
                      <<"t", "h", "e", "r", "a", "p", "y">>,
                      <<"c", "a", "r", "e">>,
                      <<"h", "e", "a", "l", "i", "n", "g">>,
                      <<"s", "u", "r", "g", "e", "r", "y">>,
                      <<"r", "a", "d", "i", "a", "t", "i", "o", "n">>,
                      <<"c", "h", "e", "m", "o", "t", "h", "e", "r", "a", "p", "y">>}],
       [words |-> {<<"r", "i", "s", "k">>,
                   <<"f", "a", "c", "t", "o", "r">>,
                   <<"p", "r", "e", "v", "e", "n", "t", "i", "o", "n">>},
        keywords |-> {<<"r", "i", "s", "k">>,
                      <<"f", "a", "c", "t", "o", "r">>,
                      <<"p", "r", "e", "v", "e", "n", "t", "i", "o", "n">>,
                      <<"s", "c", "r", "e", "e", "n", "i", "n", "g">>,
                      <<"p", "r", "e", "d", "i", "s", "p", "o", "s", "i", "t", "i", "o", "n">>}],
       [words |-> {<<"d", "i", "a", "g", "n", "o", "s", "i", "s">>,
                   <<"d", "e", "t", "e", "c", "t", "i", "o", "n">>,
                   <<"t", "e", "s", "t">>},
        keywords |-> {<<"d", "i", "a", "g", "n", "o", "s", "i", "s">>,
                      <<"d", "e", "t", "e", "c", "t", "i", "o", "n">>,
                      <<"t", "e", "s", "t">>,
                      <<"e", "x", "a", "m", "i", "n", "a", "t", "i", "o", "n">>,
                      <<"m", "a", "m", "m", "o", "g", "r", "a", "p", "h", "y">>,
                      <<"b", "i", "o", "p", "s", "y">>}] >>

\* the query words and the keywords of language "ar", lines 109-116
Topics_ar ==
    << [words |-> {<<"ar_ain", "ar_reh", "ar_dad">>,
                   <<"ar_ain", "ar_lam", "ar_alef", "ar_meem", "ar_teh_marbuta">>,
                   <<"ar_alef_with_hamza_above", "ar_ain", "ar_reh", "ar_alef", "ar_dad">>},
        keywords |-> {<<"ar_ain", "ar_reh", "ar_dad">>,
                      <<"ar_ain", "ar_lam", "ar_alef", "ar_meem", "ar_teh_marbuta">>,
                      <<"ar_khah", "ar_sad", "ar_alef", "ar_yeh_with_hamza_above", "ar_sad">>,
                      <<"ar_alef_with_hamza_above", "ar_ain", "ar_reh", "ar_alef", "ar_dad">>,
                      <<"ar_meem", "ar_waw_with_hamza_above", "ar_sheen", "ar_reh">>}],
       [words |-> {<<"ar_ain", "ar_lam", "ar_alef", "ar_jeem">>,
                   <<"ar_sheen", "ar_feh", "ar_alef", "ar_hamza">>},
        keywords |-> {<<"ar_ain", "ar_lam", "ar_alef", "ar_jeem">>,
                      <<"ar_sheen", "ar_feh", "ar_alef", "ar_hamza">>,
                      <<"ar_reh", "ar_ain", "ar_alef", "ar_yeh", "ar_teh_marbuta">>,
                      <<"ar_jeem", "ar_reh", "ar_alef", "ar_hah", "ar_teh_marbuta">>,
                      <<"ar_alef_with_hamza_below", "ar_sheen", "ar_ain", "ar_alef", "ar_ain">>,
                      <<"ar_kaf", "ar_yeh", "ar_meem", "ar_alef", "ar_waw", "ar_yeh">>}],
       [words |-> {<<"ar_khah", "ar_tah", "ar_reh">>,
                   <<"ar_ain", "ar_alef", "ar_meem", "ar_lam">>,
                   <<"ar_waw", "ar_qaf", "ar_alef", "ar_yeh", "ar_teh_marbuta">>},
        keywords |-> {<<"ar_khah", "ar_tah", "ar_reh">>,
                      <<"ar_ain", "ar_alef", "ar_meem", "ar_lam">>,
                      <<"ar_waw", "ar_qaf", "ar_alef", "ar_yeh", "ar_teh_marbuta">>,
                      <<"ar_feh", "ar_hah", "ar_sad">>,
                      <<"ar_alef", "ar_seen", "ar_teh", "ar_ain", "ar_dal", "ar_alef", "ar_dal">>}],
       [words |-> {<<"ar_teh", "ar_sheen", "ar_khah", "ar_yeh", "ar_sad">>,
                   <<"ar_kaf", "ar_sheen", "ar_feh">>,
                   <<"ar_feh", "ar_hah", "ar_sad">>},
        keywords |-> {<<"ar_teh", "ar_sheen", "ar_khah", "ar_yeh", "ar_sad">>,
                      <<"ar_kaf", "ar_sheen", "ar_feh">>,
                      <<"ar_feh", "ar_hah", "ar_sad">>,
                      <<"ar_teh", "ar_sad", "ar_waw", "ar_yeh", "ar_reh">>,
                      <<"ar_khah", "ar_zain", "ar_ain", "ar_teh_marbuta">>}] >>

\* the general keywords of line 121
GeneralKeywords_fr ==
    {<<"c", "a", "n", "c", "e", "r">>,
     <<"s", "e", "i", "n">>,
     <<"t", "u", "m", "e", "u", "r">>,
     <<"m", "a", "l", "i", "g", "n", "e">>,
     <<"b", "e_acute", "n", "i", "g", "n", "e">>}

\* the general keywords of line 123
GeneralKeywords_en ==
    {<<"c", "a", "n", "c", "e", "r">>,
     <<"b", "r", "e", "a", "s", "t">>,
     <<"t", "u", "m", "o", "r">>,
     <<"m", "a", "l", "i", "g", "n", "a", "n", "t">>,
     <<"b", "e", "n", "i", "g", "n">>}

\* the general keywords of line 125
GeneralKeywords_ar ==
    {<<"ar_seen", "ar_reh", "ar_tah", "ar_alef", "ar_noon">>,
     <<"ar_theh", "ar_dal", "ar_yeh">>,
     <<"ar_waw", "ar_reh", "ar_meem">>,
     <<"ar_khah", "ar_beh", "ar_yeh", "ar_theh">>,
     <<"ar_hah", "ar_meem", "ar_yeh", "ar_dal">>}

\* the general keywords of line 127
GeneralKeywords_other ==
    {<<"c", "a", "n", "c", "e", "r">>,
     <<"s", "e", "i", "n">>,
     <<"b", "r", "e", "a", "s", "t">>,
     <<"t", "u", "m", "o", "r">>,
     <<"t", "u", "m", "e", "u", "r">>}

Topics(language) ==
    CASE language = "fr" -> Topics_fr
      [] language = "en" -> Topics_en
      [] language = "ar" -> Topics_ar
      [] OTHER -> <<>>

GeneralKeywords(language) ==
    CASE language = "fr" -> GeneralKeywords_fr
      [] language = "en" -> GeneralKeywords_en
      [] language = "ar" -> GeneralKeywords_ar
      [] OTHER -> GeneralKeywords_other

\* keywords, lines 84-127: those of the first topic of the language that
\* has a word in the query, the general ones when there is none
keywords(query, language) ==
    LET query_lower == Lower(query)
        topics == Topics(language)
        asked == {k \in 1..Len(topics) : AnyIn(topics[k].words, query_lower)}
    IN  IF asked # {} THEN topics[SetMin(asked)].keywords
        ELSE GeneralKeywords(language)

\* relevant_segments, lines 130-140
relevant_segments(query, knowledge_base, language) ==
    LET paragraphs == SplitFrom(knowledge_base, 1)
        wanted == keywords(query, language)
        found == SelectSeq(paragraphs, LAMBDA paragraph : AnyIn(wanted, Lower(paragraph)))
    IN  IF found = <<>>
        THEN SubSeq(paragraphs, 1, IF Len(paragraphs) < 3 THEN Len(paragraphs) ELSE 3)
        ELSE found

\* combined_segments, line 143
combined_segments(query, knowledge_base, language) ==
    JoinParagraphs(relevant_segments(query, knowledge_base, language))

\* "..."
Ellipsis == <<".", ".", ".">>

\* A limit that cuts the text and leaves out the marker.
LimitSegments_NoMarker(combined) ==
    IF Len(combined) > 1500 THEN SubSeq(combined, 1, 1500) ELSE combined

\* lines 144-147
LimitSegments(combined) ==
    IF Len(combined) > 1500 THEN SubSeq(combined, 1, 1500) \o Ellipsis ELSE combined

\* A test that takes a base of 1000 characters as short.
IsShortKnowledge_AtMost(knowledge_base) == Len(knowledge_base) <= 1000

\* len(knowledge_base) < 1000, line 80
IsShortKnowledge(knowledge_base) == Len(knowledge_base) < 1000

\* extract_relevant_knowledge(query, knowledge_base, language)
extract_relevant_knowledge(query, knowledge_base, language) ==
    IF IsShortKnowledge(knowledge_base) THEN knowledge_base
    ELSE LimitSegments(combined_segments(query, knowledge_base, language))

(***************************************************************************)
(* extract_relevant_knowledge on its own: the knowledge bases, the queries *)
(* and the language tags it is given.                                      *)
(***************************************************************************)

\* "La chirurgie est le traitement le plus courant du cancer du sein."
KP_treatment ==
    <<"L", "a", " ", "c", "h", "i", "r", "u", "r", "g", "i", "e", " ", "e", "s", "t", " ", "l", "e",
        " ", "t", "r", "a", "i", "t", "e", "m", "e", "n", "t", " ", "l", "e", " ", "p", "l", "u", "s",
        " ", "c", "o", "u", "r", "a", "n", "t", " ", "d", "u", " ", "c", "a", "n", "c", "e", "r", " ",
        "d", "u", " ", "s", "e", "i", "n", ".">>

\* "Un sympt{o_circumflex}me fr{e_acute}quent est une masse dans le sein."
KP_symptom ==
    <<"U", "n", " ", "s", "y", "m", "p", "t", "o_circumflex", "m", "e", " ", "f", "r", "e_acute", "q",
        "u", "e", "n", "t", " ", "e", "s", "t", " ", "u", "n", "e", " ", "m", "a", "s", "s", "e", " ",
        "d", "a", "n", "s", " ", "l", "e", " ", "s", "e", "i", "n", ".">>

\* "Age is a risk factor for Breast Cancer."
KP_risk_en ==
    <<"A", "g", "e", " ", "i", "s", " ", "a", " ", "r", "i", "s", "k", " ", "f", "a", "c", "t", "o",
        "r", " ", "f", "o", "r", " ", "B", "r", "e", "a", "s", "t", " ", "C", "a", "n", "c", "e", "r",
        ".">>

\* "{ar_ain}{ar_lam}{ar_alef}{ar_jeem} {ar_seen}{ar_reh}{ar_tah}{ar_alef}{ar_noon} {ar_alef}{ar_lam}{ar_theh}{ar_dal}{ar_yeh} {ar_beh}{ar_alef}{ar_lam}{ar_jeem}{ar_reh}{ar_alef}{ar_hah}{ar_teh_marbuta}."
KP_ar ==
    <<"ar_ain", "ar_lam", "ar_alef", "ar_jeem", " ", "ar_seen", "ar_reh", "ar_tah", "ar_alef",
        "ar_noon", " ", "ar_alef", "ar_lam", "ar_theh", "ar_dal", "ar_yeh", " ", "ar_beh", "ar_alef",
        "ar_lam", "ar_jeem", "ar_reh", "ar_alef", "ar_hah", "ar_teh_marbuta", ".">>

\* "Le centre ouvre du lundi au vendredi."
KP_hours ==
    <<"L", "e", " ", "c", "e", "n", "t", "r", "e", " ", "o", "u", "v", "r", "e", " ", "d", "u", " ",
        "l", "u", "n", "d", "i", " ", "a", "u", " ", "v", "e", "n", "d", "r", "e", "d", "i", ".">>

\* A text made n characters long.
FillTo(text, n) == text \o [i \in 1..(n - Len(text)) |-> "z"]

\* three paragraphs, fewer than 1000 characters
K_short ==
    KP_treatment \o <<"\n", "\n">> \o KP_hours \o <<"\n", "\n">> \o KP_symptom

\* the same and a fourth paragraph, 999 characters
K_999 ==
    FillTo(K_short \o <<"\n", "\n">>, 999)

\* the same and a fourth paragraph, 1000 characters
K_1000 ==
    FillTo(K_short \o <<"\n", "\n">>, 1000)

\* one paragraph of 1500 characters
K_one_1500 ==
    FillTo(KP_treatment \o <<" ">>, 1500)

\* one paragraph of 1501 characters
K_one_1501 ==
    FillTo(KP_treatment \o <<" ">>, 1501)

\* five paragraphs in three languages, apart by blank lines of several kinds
K_mixed ==
    KP_treatment \o <<"\n", "\n">> \o FillTo(KP_hours \o <<" ">>, 800)
        \o <<"\n", "\n">> \o KP_risk_en \o <<"\n", " ", "\n">> \o KP_ar
        \o <<"\n", "\n", "\n">> \o FillTo(KP_symptom \o <<" ">>, 900)

\* four paragraphs of 700 characters without any keyword
K_hours ==
    LET p == FillTo(KP_hours \o <<" ">>, 700)
    IN  p \o <<"\n", "\n">> \o p \o <<"\n", "\n">> \o p \o <<"\n", "\n">> \o p

KnowledgeBases == {K_short, K_999, K_1000, K_one_1500, K_one_1501, K_mixed, K_hours}

KnowledgeQueries ==
    {Q_traitement, Q_weather, Q_which_treatment, Q_breast_risk, Q_ar_treatment,
     Q_tumeur_benigne}

InitKnow ==
    /\ BusAtRest
    /\ ss = [none |-> TRUE]
    /\ \E query \in KnowledgeQueries, knowledge_base \in KnowledgeBases,
          language \in LanguageTags :
         run = [pc |-> "call", query |-> query, language |-> language,
                knowledge_base |-> knowledge_base, result |-> <<>>]

\* extract_relevant_knowledge(query, knowledge_base, language)
CallExtractRelevantKnowledge ==
    /\ run.pc = "call"
    /\ run' = [run EXCEPT
                 !.pc = "done",
                 !.result = extract_relevant_knowledge(run.query, run.knowledge_base,
                                                       run.language)]
    /\ UNCHANGED <<ss>>
    /\ UNCHANGED busVars

NextKnow == CallExtractRelevantKnowledge
SpecKnow == InitKnow /\ [][NextKnow]_vars

(***************************************************************************)
(* config.py and modules/detection.py.  A confidence is a whole number of  *)
(* hundredths: 70 is 0.70.                                                 *)
(***************************************************************************)
MALIGNANCY_THRESHOLD == 70

\* A threshold test that takes the threshold itself as malignant.
IsMalignant_AtLeast(conf) == conf >= MALIGNANCY_THRESHOLD

\* conf > MALIGNANCY_THRESHOLD, detection.py lines 118, 146 and 154
IsMalignant(conf) == conf > MALIGNANCY_THRESHOLD

\* The bus as the script sees it: the history and the clock.
Bus(h, now) == [h |-> h, now |-> now]

\* callback_manager.trigger(event_type, **kwargs) run to completion
Emit(b, event_type, kwargs) ==
    Bus(TriggerHistory(b.h, event_type, b.now, kwargs),
        TriggerClock(event_type, b.now))

\* torch.argmax(boxes.conf): the index of the first largest confidence
ArgMax(confs) ==
    CHOOSE i \in 1..Len(confs) :
        /\ \A j \in 1..Len(confs) : confs[j] <= confs[i]
        /\ \A j \in 1..(i - 1) : confs[j] < confs[i]

\* What the detector does for an uploaded image: it raises, or returns
\* the list of results, one result (its boxes) per image.
NoResults == [none |-> TRUE, list |-> <<>>]
ResultList(l) == [none |-> FALSE, list |-> l]

\* yolo_results and len(yolo_results) > 0 and len(yolo_results[0].boxes) > 0
HasDetections(results) ==
    /\ ~results.none
    /\ Len(results.list) > 0
    /\ Len(results.list[1].boxes) > 0

\* An except branch that records nothing.
OnPredictionError_Silent(b) == b

\* predict_with_yolo, lines 65-74: the except branch triggers on_error
\* before None is returned.
OnPredictionError(b) ==
    Emit(b, "on_error",
         [error_type |-> "prediction_error",
          error_message |-> "detector", module |-> "detection"])

\* A report made for every prediction, with or without boxes.
OnPrediction_Always(b, results, conf_threshold) ==
    LET boxes == IF HasDetections(results) THEN results.list[1].boxes ELSE <<>>
    IN  Emit(b, "on_detection",
             [detection_count |-> Len(boxes),
              confidence_scores |-> boxes,
              prediction_time |-> b.now,
              threshold_used |-> conf_threshold])

\* predict_with_yolo, lines 53-61: on_detection is triggered when the
\* first result has at least one box.
OnPrediction(b, results, conf_threshold) ==
    IF HasDetections(results)
    THEN Emit(b, "on_detection",
              [detection_count |-> Len(results.list[1].boxes),
               confidence_scores |-> results.list[1].boxes,
               prediction_time |-> b.now,
               threshold_used |-> conf_threshold])
    ELSE b

\* predict_with_yolo(model, image, conf_threshold), lines 45-74: the
\* results it returns and the bus it leaves.
predict_with_yolo(b, image, conf_threshold) ==
    IF image.detector = "raises"
    THEN [results |-> NoResults, bus |-> OnPredictionError(b)]
    ELSE LET results ==
                 IF image.detector = "empty_results" THEN ResultList(<<>>)
                 ELSE ResultList(<<[boxes |->
                        SelectSeq(image.boxes, LAMBDA c : c >= conf_threshold)]>>)
         IN  [results |-> results,
              bus |-> OnPrediction(b, results, conf_threshold)]

\* A loop that reports only the malignant boxes.
ClassifyBox_OnlyMalignant(b, analysis_id, i, conf) ==
    IF IsMalignant(conf)
    THEN Emit(b, "on_classification",
              [detection_id |-> <<analysis_id, i - 1>>, confidence |-> conf,
               adjusted_class |-> "cancer", is_malignant |-> TRUE])
    ELSE b

\* One turn of the loop of display_results, lines 111-147, for box i.
ClassifyBox(b, analysis_id, i, conf) ==
    Emit(b, "on_classification",
         [detection_id |-> <<analysis_id, i - 1>>,
          confidence |-> conf,
          adjusted_class |-> IF IsMalignant(conf) THEN "cancer" ELSE "normal",
          is_malignant |-> IsMalignant(conf)])

RECURSIVE ClassifyBoxes(_, _, _, _)
ClassifyBoxes(b, analysis_id, confs, i) ==
    IF i > Len(confs) THEN b
    ELSE ClassifyBoxes(ClassifyBox(b, analysis_id, i, confs[i]),
                       analysis_id, confs, i + 1)

\* malignant_count and benign_count of lines 106-127
CountOf(confs, malignant) ==
    Cardinality({i \in 1..Len(confs) : IsMalignant(confs[i]) = malignant})

\* A display_results that keeps the condition when nothing is detected.
NoDetectionCondition_Keeps(previous) == previous

\* st.session_state.detected_condition = None, lines 173 and 185
NoDetectionCondition(previous) == "None"

\* display_results(yolo_results, image), lines 84-233: the condition it
\* stores, its counts and the bus it leaves.
display_results(b, results, previous) ==
    LET analysis_id == <<"analysis", b.now>>
    IN  IF HasDetections(results)
        THEN LET confs == results.list[1].boxes
                 highest_conf == confs[ArgMax(confs)]
                 condition == IF IsMalignant(highest_conf) THEN "cancer" ELSE "normal"
                 b1 == ClassifyBoxes(b, analysis_id, confs, 1)
                 b2 == Emit(b1, "on_analysis_complete",
                            [analysis_id |-> analysis_id,
                             total_detections |-> Len(confs),
                             malignant_count |-> CountOf(confs, TRUE),
                             benign_count |-> CountOf(confs, FALSE),
                             highest_confidence |-> highest_conf,
                             final_classification |-> condition])
                 b3 == Emit(b2, "on_conclusion",
                            [analysis_id |-> analysis_id,
                             conclusion |-> IF IsMalignant(highest_conf)
                                            THEN "maligne" ELSE "benigne",
                             confidence |-> highest_conf,
                             threshold_used |-> MALIGNANCY_THRESHOLD])
             IN  [condition |-> condition,
                  malignant_count |-> CountOf(confs, TRUE),
                  benign_count |-> CountOf(confs, FALSE),
                  bus |-> b3]
        ELSE LET b2 == Emit(b, "on_analysis_complete",
                            [analysis_id |-> analysis_id,
                             total_detections |-> 0,
                             result |-> IF ~results.none /\ Len(results.list) > 0
                                        THEN "no_detection" ELSE "no_results"])
                 b3 == Emit(b2, "on_conclusion",
                            [analysis_id |-> analysis_id,
                             conclusion |-> "aucune_detection",
                             confidence |-> 0,
                             threshold_used |-> MALIGNANCY_THRESHOLD])
             IN  [condition |-> NoDetectionCondition(previous),
                  malignant_count |-> 0,
                  benign_count |-> 0,
                  bus |-> b3]

(***************************************************************************)
(* app.py: one session.  A script run starts with what the user did        *)
(* (run.event) and goes through main, sidebar_section, chat_section and    *)
(* image_analysis_section.                                                 *)
(***************************************************************************)
MaxRuns == 2

NoImage == [name |-> "None", detector |-> "none", boxes |-> <<>>]
Images ==
    { [name |-> "two.png", detector |-> "returns", boxes |-> <<30, 85>>],
      [name |-> "edge.png", detector |-> "returns", boxes |-> <<71, 70>>],
      [name |-> "border.png", detector |-> "returns", boxes |-> <<70>>],
      [name |-> "odd.png", detector |-> "empty_results", boxes |-> <<>>],
      [name |-> "bad.png", detector |-> "raises", boxes |-> <<>>] }

\* The positions of the slider of sidebar_section used here (0.25 is its
\* start value).
ConfThresholds == {25, 75}

SessionQueries == {Q_traitement, Q_weather, Q_bonjour}

\* What langdetect answers and what the generator does during a session.
SessionLanguageTags == {"fr", "en"}
SessionGeneratorOutcomes ==
    {[kind |-> "raises", text |-> <<>>],
     [kind |-> "returns", text |-> T_short],
     [kind |-> "returns", text |-> T_answer]}

Event(type) == [type |-> type, query |-> <<>>, image |-> NoImage, value |-> 0]
UserEvents ==
    {Event("reset")}
        \cup {[Event("submit") EXCEPT !.query = q] : q \in SessionQueries}
        \cup {[Event("upload") EXCEPT !.image = i] : i \in Images}
        \cup {[Event("slider") EXCEPT !.value = v] : v \in ConfThresholds}

NoObs == [op |-> "none"]
UserText(text) == [src |-> "user", lang |-> "any", entry |-> text]
Message(role, content) == [role |-> role, content |-> content]

InitSession ==
    /\ callbacks = [k \in CALLBACK_TYPES |-> <<>>]
    /\ history = <<>>
    /\ accepted = <<>>
    /\ clock = 1
    /\ pc = [t \in Threads |-> "idle"]
    /\ ev = [t \in Threads |-> NoEvent]
    /\ tmp = [t \in Threads |-> <<>>]
    /\ idx = [t \in Threads |-> 0]
    /\ calls = [t \in Threads |-> <<>>]
    /\ ntrig = 0
    /\ nreg = 0
    /\ last = NoCall
    /\ ss = [session_id |-> 1,
             model |-> "None",
             llama_model |-> "None",
             messages |-> <<>>,
             uploaded_image |-> NoImage,
             detected_condition |-> "None",
             conf_threshold |-> 25,
             resources_loaded |-> FALSE,
             file_uploader |-> NoImage,
             slider |-> 25,
             nruns |-> 0]
    /\ run = [pc |-> "main", event |-> Event("load"),
              results |-> NoResults, obs |-> NoObs]

busFrame == UNCHANGED <<callbacks, accepted, pc, ev, tmp, idx, calls, ntrig, nreg, last>>

\* The user does something on the page, which starts a script run.
UserInteracts(e) ==
    /\ run.pc = "idle"
    /\ ss.nruns < MaxRuns
    /\ ss' = [ss EXCEPT !.nruns = @ + 1,
                        !.file_uploader = IF e.type = "upload" THEN e.image ELSE @,
                        !.slider = IF e.type = "slider" THEN e.value ELSE @]
    /\ run' = [pc |-> "main", event |-> e, results |-> NoResults, obs |-> NoObs]
    /\ UNCHANGED <<history, clock>>
    /\ busFrame

\* A loading failure that leaves no record.
OnModelLoadingError_Silent(b, error_message, module) == b

\* load_resources_silently, lines 43-44, 46, 55, 63 and 67:
\* on_error_occurred("model_loading_error", message, module)
OnModelLoadingError(b, error_message, module) ==
    Emit(b, "on_error",
         [error_type |-> "model_loading_error",
          error_message |-> error_message, module |-> module,
          timestamp |-> b.now])

\* main, lines 90-127, with load_resources_silently, lines 35-85: each of
\* the two models loads or fails to load, on the first run only.
Main ==
    /\ run.pc = "main"
    /\ IF ss.resources_loaded
       THEN UNCHANGED <<ss, history, clock>>
       ELSE \E yolo \in {"loaded", "None"}, llama \in {"loaded", "None"} :
              LET b0 == Bus(history, clock)
                  b1 == IF yolo = "None"
                        THEN OnModelLoadingError(b0, "yolo", "detection")
                        ELSE b0
                  b2 == IF llama = "None"
                        THEN OnModelLoadingError(b1, "llama", "chat")
                        ELSE b1
              IN  /\ ss' = [ss EXCEPT !.model = yolo, !.llama_model = llama,
                                      !.resources_loaded = TRUE]
                  /\ history' = b2.h
                  /\ clock' = b2.now
    /\ run' = [run EXCEPT !.pc = "sidebar"]
    /\ busFrame

\* A reset that keeps the conversation.
ResetSession_KeepsMessages(s) ==
    [s EXCEPT !.uploaded_image = NoImage,
              !.detected_condition = "None",
              !.session_id = @ + 1]

\* sidebar_section, lines 187-189 and 198-199: the reset button empties
\* the messages, the uploaded image and the detected condition and draws a
\* new session id (uuid.uuid4(), here the next number never used before).
ResetSession(s) ==
    [s EXCEPT !.messages = <<>>,
              !.uploaded_image = NoImage,
              !.detected_condition = "None",
              !.session_id = @ + 1]

\* sidebar_section, lines 143-199: the slider and the reset button.
SidebarSection ==
    /\ run.pc = "sidebar"
    /\ IF run.event.type = "reset"
       THEN LET b == Emit(Bus(history, clock), "on_session_end",
                          [session_id |-> ss.session_id, session_duration |-> 0])
            IN  /\ ss' = [ResetSession(ss) EXCEPT !.conf_threshold = ss.slider]
                /\ history' = b.h
                /\ clock' = b.now
       ELSE /\ ss' = [ss EXCEPT !.conf_threshold = ss.slider]
            /\ UNCHANGED <<history, clock>>
    /\ run' = [run EXCEPT !.pc = "chat"]
    /\ busFrame

\* update_response receiving every chunk twice.
update_response_Twice(current_response, text_chunk) ==
    current_response \o <<text_chunk, text_chunk>>

\* update_response, lines 230-232: current_response[0] += text_chunk.  The
\* accumulated text is kept as the sequence of the chunks received.
update_response(current_response, text_chunk) ==
    Append(current_response, text_chunk)

\* A chat submission that appends the assistant message only.
ChatMessages_AssistantOnly(messages, user_input, response) ==
    Append(messages, Message("assistant", response))

\* chat_section, lines 220 and 281: the user message, then the assistant
\* message.
ChatMessages(messages, user_input, response) ==
    messages \o <<Message("user", UserText(user_input)),
                  Message("assistant", response)>>

\* chat_section, lines 201-284.  With a submitted message: the answer of
\* get_bot_response (the call with streaming_callback raises TypeError
\* before the function runs, the call without it answers and its answer
\* is handed to update_response), the on_message record; when the answer
\* raised, the fallback of lines 269-278 and the on_error record instead;
\* then the two messages and st.rerun(), which ends this run and starts
\* the next.
ChatSection ==
    /\ run.pc = "chat"
    /\ IF run.event.type = "submit" /\ run.event.query # <<>>
       THEN \E language0 \in SessionLanguageTags, language \in SessionLanguageTags,
               language2 \in SessionLanguageTags, gen \in SessionGeneratorOutcomes :
            \E out \in {get_bot_response(run.event.query, ss.llama_model # "None",
                                         ss.detected_condition,
                                         language, language2, gen)} :
              LET q == run.event.query
                  response == IF out.raised
                              THEN get_fallback_response(q, language0)
                              ELSE out.response
                  current_response == update_response(<<>>, response)
                  b == IF out.raised
                       THEN Emit(Bus(history, clock), "on_error",
                                 [error_type |-> "response_generation_error",
                                  error_message |-> "chat", module |-> "chat",
                                  timestamp |-> clock])
                       ELSE Emit(Bus(history, clock), "on_message",
                                 [user_message |-> UserText(q),
                                  bot_response |-> response,
                                  detected_language |-> language0,
                                  timestamp |-> clock])
              IN  /\ ss' = [ss EXCEPT !.messages = ChatMessages(@, q, response)]
                  /\ history' = b.h
                  /\ clock' = b.now
                  /\ run' = [pc |-> "main", event |-> Event("rerun"),
                             results |-> NoResults,
                             obs |-> [op |-> "chat", query |-> q,
                                      generator |-> out.generator,
                                      generator_raised |->
                                          out.generator /\ gen.kind = "raises",
                                      raised |-> out.raised,
                                      retrieval |-> out.retrieval,
                                      response |-> response,
                                      current_response |-> current_response,
                                      clock0 |-> clock]]
       ELSE /\ run' = [run EXCEPT !.pc = "image"]
            /\ UNCHANGED <<ss, history, clock>>
    /\ busFrame

\* image_analysis_section, lines 291-331: the uploaded file, the
\* prediction and on_tumor_detection.
ImagePredict ==
    /\ run.pc = "image"
    /\ IF ss.file_uploader = NoImage
       THEN /\ run' = [run EXCEPT !.pc = "idle"]
            /\ UNCHANGED <<ss, history, clock>>
       ELSE /\ ss' = [ss EXCEPT !.uploaded_image = ss.file_uploader]
            /\ IF ss.model = "None"
               THEN /\ run' = [run EXCEPT !.pc = "idle"]
                    /\ UNCHANGED <<history, clock>>
               ELSE LET p == predict_with_yolo(Bus(history, clock),
                                               ss.file_uploader, ss.conf_threshold)
                        confs == p.results.list[1].boxes
                        highest_conf == confs[ArgMax(confs)]
                        b == IF HasDetections(p.results)
                             THEN Emit(p.bus, "on_detection",
                                       [image_id |-> <<"img", p.bus.now, ss.file_uploader.name>>,
                                        confidence |-> highest_conf,
                                        is_malignant |-> IsMalignant(highest_conf),
                                        image_path |-> ss.file_uploader.name,
                                        classification_type |->
                                            IF IsMalignant(highest_conf)
                                            THEN "maligne" ELSE "benigne"])
                             ELSE p.bus
                    IN  /\ history' = b.h
                        /\ clock' = b.now
                        /\ run' = [run EXCEPT !.pc = "display",
                                              !.results = p.results]
    /\ busFrame

\* image_analysis_section, line 334: display_results(yolo_results, image)
ImageDisplay ==
    /\ run.pc = "display"
    /\ LET d == display_results(Bus(history, clock), run.results,
                                ss.detected_condition)
       IN  /\ ss' = [ss EXCEPT !.detected_condition = d.condition]
           /\ history' = d.bus.h
           /\ clock' = d.bus.now
           /\ run' = [run EXCEPT !.pc = "message",
                                 !.obs = [op |-> "display",
                                          results |-> run.results,
                                          history0 |-> history,
                                          clock0 |-> clock,
                                          previous |-> ss.detected_condition,
                                          malignant_count |-> d.malignant_count,
                                          benign_count |-> d.benign_count]]
    /\ busFrame

\* The last user message, if any: next(... for msg in reversed(messages)
\* if msg["role"] == "user"), lines 341-342.
HasUserMessage(messages) ==
    \E i \in 1..Len(messages) : messages[i].role = "user"

\* image_analysis_section, lines 337-371: the assistant message about the
\* detection.
ImageMessage ==
    /\ run.pc = "message"
    /\ IF ss.detected_condition # "None"
       THEN \E user_lang \in IF HasUserMessage(ss.messages)
                               THEN SessionLanguageTags ELSE {"fr"} :
              LET response == Canned("analysis_message",
                                     IF user_lang \in {"en", "ar"} THEN user_lang ELSE "fr",
                                     ss.detected_condition)
                  b == Emit(Bus(history, clock), "on_message",
                            [user_message |-> Canned("analysis_message", "any", "[IMAGE ANALYSIS]"),
                             bot_response |-> response,
                             detected_language |-> user_lang,
                             timestamp |-> clock])
              IN  /\ ss' = [ss EXCEPT !.messages = Append(@, Message("assistant", response))]
                  /\ history' = b.h
                  /\ clock' = b.now
       ELSE UNCHANGED <<ss, history, clock>>
    /\ run' = [run EXCEPT !.pc = "idle"]
    /\ busFrame

Next ==
    \/ \E e \in UserEvents : UserInteracts(e)
    \/ Main
    \/ SidebarSection
    \/ ChatSection
    \/ ImagePredict
    \/ ImageDisplay
    \/ ImageMessage

Spec == InitSession /\ [][Next]_vars

(***************************************************************************)
(* Claims about the event/callback bus.                                    *)
(***************************************************************************)
Min(a, b) == IF a < b THEN a ELSE b

\* The newest Min(Len(all), max_history) records of all, in order.
IsNewestOf(h, all) ==
    LET n == Len(all)
        k == Min(n, max_history)
    IN  /\ Len(h) = k
        /\ \A i \in 1..k : h[i] = all[n - k + i]

\* C1: whenever a trigger call has completed and whenever a subscriber is
\* invoked, the history holds at most max_history (100) records, and they
\* are exactly the most recent accepted records in trigger order: the
\* oldest record is the one evicted.
C1_HistoryBoundedFifo ==
    /\ pc[1] \in {"idle", "dispatch", "returned"} =>
          /\ Len(history) <= max_history
          /\ IsNewestOf(history, accepted)
    /\ \A i \in 1..Len(calls[1]) : calls[1][i].history_len <= max_history

C1_Witness ==
    /\ pc[1] = "returned"
    /\ Len(accepted) > max_history + 1
    /\ Len(calls[1]) > 0

\* C2: two trigger calls for known kinds running concurrently on the shared
\* callback_manager are serialized: once no thread is inside its
\* append-and-evict, the history holds at most max_history (100) records
\* and none of the newest accepted records is lost.
C2_ConcurrentTriggersSerialized ==
    (\A t \in Threads : pc[t] \in {"idle", "dispatch", "returned"}) =>
        /\ Len(history) <= max_history
        /\ \A i \in 1..Len(accepted) :
              i > Len(accepted) - max_history =>
                 \E j \in 1..Len(history) : history[j] = accepted[i]

\* C9: trigger with a known kind first appends the record to the history
\* (evicting beyond 100) and only then invokes the subscribers of that
\* kind, each exactly once and in registration order; no subscriber of
\* another kind is invoked.
C9_AppendThenDispatchInOrder ==
    LET subs == callbacks[ev[1].type]
    IN  /\ (pc[1] \in {"dispatch", "returned"} /\ ev[1] # NoEvent) =>
              /\ Len(history) >= 1
              /\ Len(history) <= max_history
              /\ history[Len(history)] = ev[1]
              /\ Len(calls[1]) <= Len(subs)
              /\ \A i \in 1..Len(calls[1]) :
                    /\ calls[1][i].sub = subs[i]
                    /\ calls[1][i].kind = ev[1].type
                    /\ calls[1][i].kwargs = ev[1].data
        /\ (pc[1] = "dispatch") => Len(calls[1]) = idx[1] - 1
        /\ (pc[1] = "returned" /\ ev[1] # NoEvent) => Len(calls[1]) = Len(subs)
        /\ (pc[1] \in {"append", "check", "slice", "store"}) => calls[1] = <<>>
        /\ (pc[1] = "returned" /\ ev[1] = NoEvent) => calls[1] = <<>>

C9_Witness ==
    /\ pc[1] = "returned"
    /\ ev[1] # NoEvent
    /\ Len(calls[1]) = 2
    /\ calls[1][1].sub # calls[1][2].sub
    /\ \E k \in CALLBACK_TYPES : k # ev[1].type /\ callbacks[k] # <<>>
    /\ Len(accepted) > max_history

\* C10: a subscriber raising during trigger does not stop the dispatch:
\* every subscriber registered after it for that kind is still invoked, the
\* record stays in the history, and trigger returns normally.
C10_RaisingSubscriberIsSwallowed ==
    /\ pc[1] # "raised"
    /\ \A i \in 1..Len(calls[1]) :
          calls[1][i].outcome = "raises" =>
             /\ pc[1] \in {"dispatch", "returned", "idle"}
             /\ history[Len(history)] = ev[1]
             /\ pc[1] = "returned" =>
                   \A j \in (i + 1)..Len(callbacks[ev[1].type]) :
                      /\ j <= Len(calls[1])
                      /\ calls[1][j].sub = callbacks[ev[1].type][j]

C10_Witness ==
    /\ pc[1] = "returned"
    /\ Len(calls[1]) >= 2
    /\ calls[1][1].outcome = "raises"

\* C11: trigger with a kind outside the six kinds of CALLBACK_TYPES is a
\* no-op: the history and the registry are as before the call, no
\* subscriber is invoked and trigger returns without raising.
C11_UnknownKindIsNoOp ==
    (last.op = "trigger" /\ last.kind \notin CALLBACK_TYPES) =>
        /\ history = last.history0
        /\ callbacks = last.callbacks0
        /\ calls[last.thread] = <<>>
        /\ pc[last.thread] \in {"returned", "idle"}

C11_Witness ==
    /\ last.op = "trigger"
    /\ last.kind \notin CALLBACK_TYPES
    /\ pc[last.thread] = "idle"
    /\ Len(history) = max_history
    /\ \E k \in CALLBACK_TYPES : Len(callbacks[k]) > 0

\* C12: register with a known kind appends the subscriber to the end of
\* the list of that kind and changes no other list; register with an
\* unknown kind fails with ValueError and leaves the registry and the
\* history as they were.
C12_RegisterAppendsOrFails ==
    last.op = "register" =>
        IF last.kind \in CALLBACK_TYPES
        THEN /\ last.result = "None"
             /\ \A k \in CALLBACK_TYPES :
                  callbacks[k] = IF k = last.kind
                                 THEN last.callbacks0[k] \o <<last.callback>>
                                 ELSE last.callbacks0[k]
             /\ history = last.history0
        ELSE /\ last.result = "ValueError"
             /\ callbacks = last.callbacks0
             /\ history = last.history0

C12_Witness ==
    /\ last.op = "register"
    /\ last.kind \in CALLBACK_TYPES
    /\ Len(last.callbacks0[last.kind]) > 0
    /\ last.callbacks0[last.kind][1] # last.callback
    /\ Len(callbacks[last.kind]) = Len(last.callbacks0[last.kind]) + 1

(***************************************************************************)
(* Claims about get_llama_response.                                        *)
(***************************************************************************)
\* The case of C5: a health-related query for which the generator raised or
\* returned a text shorter than 10 characters.
C5_Case ==
    /\ run.pc = "done"
    /\ is_health_related(run.query, run.language)
    /\ \/ run.gen.kind = "raises"
       \/ Len(run.gen.text) < 10

\* C5 (as stated): when the generator raises, or returns text shorter than
\* 10 characters, for a health-related query, get_llama_response returns a
\* canned response in the detected language (French for an unsupported
\* tag) selected by the keyword buckets cancer-info, benign-info,
\* malignant-info, treatment, default; it never raises.
C5_FallbackByTopicBuckets ==
    C5_Case =>
        /\ ~run.result.raised
        /\ run.result.response.lang = LangOrFr(run.language)
        /\ run.result.response.entry =
              get_fallback_responses(run.query, run.language).entry

\* C5 (amended): in that case get_llama_response returns the canned
\* response of get_fallback_response of modules/utils.py in the detected
\* language, selected by the first matching bucket among greeting, thanks,
\* symptoms, treatment, risk/prevention, else the default text; for an
\* unsupported language tag it is the French default text whatever the
\* keywords; it never raises.
C5_FallbackByUtilsBuckets ==
    C5_Case =>
        LET r == run.result.response
            q == run.query
            l == run.language
        IN  /\ ~run.result.raised
            /\ run.result.generator
            /\ r.src = "get_fallback_response"
            /\ r.lang = LangOrFr(l)
            /\ r.entry \in {"greeting", "thanks", "symptoms", "treatment",
                            "risk", "default"}
            /\ l \notin SupportedLanguages => r.entry = "default"
            /\ (q = Q_traitement /\ l = "fr") => r.entry = "treatment"
            /\ (q = Q_traitement_cancer /\ l = "fr") => r.entry = "treatment"
            /\ (q = Q_tumeur_benigne /\ l = "fr") => r.entry = "default"
            /\ (q = Q_which_treatment /\ l = "en") => r.entry = "greeting"
            /\ (q = Q_breast_risk /\ l = "en") => r.entry = "risk"
            /\ (q = Q_ar_treatment /\ l = "ar") => r.entry = "treatment"

C5_Witness ==
    /\ C5_Case
    /\ run.gen.kind = "raises"
    /\ run.query = Q_traitement
    /\ run.language = "fr"
    /\ run.result.response = Canned("get_fallback_response", "fr", "treatment")

(***************************************************************************)
(* Claims about the topic gate and the greeting, checked under SpecTopic   *)
(* and SpecBot.                                                            *)
(***************************************************************************)
\* C13: is_health_related(text, language) is true exactly when the
\* lowercased text contains a keyword of the set of the language (of the
\* French set for a tag other than fr, en, ar) or a keyword of the French
\* or of the English set; so a text that contains a keyword of L is
\* health-related for L, for L in fr, en, ar.
C13_HealthRelatedIffKeyword ==
    run.pc = "done" =>
        /\ run.result =
             \E kw \in HEALTH_KEYWORDS(IF run.language \in {"fr", "en", "ar"}
                                       THEN run.language ELSE "fr")
                         \cup HEALTH_KEYWORDS_fr \cup HEALTH_KEYWORDS_en :
                Contains(Lower(run.text), kw)
        /\ (/\ run.language \in {"fr", "en", "ar"}
            /\ \E kw \in HEALTH_KEYWORDS(run.language) : Contains(run.text, kw))
              => run.result

C13_Witness ==
    /\ run.pc = "done"
    /\ run.language = "ar"
    /\ run.result
    /\ ~AnyIn(HEALTH_KEYWORDS_ar, Lower(run.text))
    /\ AnyIn(HEALTH_KEYWORDS_en, Lower(run.text))
    /\ ~AnyIn(HEALTH_KEYWORDS_en, run.text)

\* The text lowercased and without punctuation, and the greetings of a
\* language that start it.
NoKeyword(text) == \A kw \in AllKeywords : ~Contains(Lower(text), kw)
GreetingsOf(lang) ==
    CASE lang = "fr" -> GREETINGS_fr
      [] lang = "en" -> GREETINGS_en
      [] lang = "ar" -> GREETINGS_ar
GreetsIn(text, lang) ==
    \E g \in GreetingsOf(lang) : StartsWith(clean_text(text), g)
OffTopicOf(language) ==
    [src |-> "OFF_TOPIC_MESSAGES",
     lang |-> IF language \in {"fr", "en", "ar"} THEN language ELSE "fr",
     entry |-> "message"]

\* C14 as stated: for every text with no keyword of any supported language
\* the response of get_bot_response, and of get_llama_response called
\* directly, is the off-topic message of the detected language (the French
\* one for a tag other than fr, en, ar), with no retrieval and no generation.
C14_OffTopicWhenNoKeyword ==
    (run.pc = "done" /\ NoKeyword(run.text)) =>
        /\ run.result.response = OffTopicOf(run.language)
        /\ ~run.result.retrieval
        /\ ~run.result.generator

\* C14, amended: the same for get_llama_response called directly, and for
\* get_bot_response when the normalized text does not start with a listed
\* greeting.
C14_OffTopicWhenNoKeywordNoGreeting ==
    (/\ run.pc = "done"
     /\ NoKeyword(run.text)
     /\ run.fn = "get_bot_response" =>
           \A lang \in {"fr", "en", "ar"} : ~GreetsIn(run.text, lang)) =>
        /\ run.result.response = OffTopicOf(run.language)
        /\ ~run.result.retrieval
        /\ ~run.result.generator

C14_Witness ==
    /\ run.pc = "done"
    /\ run.fn = "get_bot_response"
    /\ run.text = Q_weather
    /\ run.language = "en"
    /\ run.llama_loaded
    /\ run.detected_condition = "cancer"
    /\ run.result.response = OffTopicOf("en")

\* C15: for a query whose normalized text starts with a listed greeting,
\* get_bot_response returns the greeting response of the first language, in
\* the order fr, en, ar, that has a greeting starting the text; it does so
\* before the topic gate, with no retrieval and no generation.
C15_GreetingFirst ==
    (/\ run.pc = "done"
     /\ run.fn = "get_bot_response"
     /\ \E lang \in {"fr", "en", "ar"} : GreetsIn(run.text, lang)) =>
        LET order == <<"fr", "en", "ar">>
            first == CHOOSE i \in 1..3 :
                        /\ GreetsIn(run.text, order[i])
                        /\ \A j \in 1..(i - 1) : ~GreetsIn(run.text, order[j])
        IN  /\ run.result.response =
                 [src |-> "GREETING_RESPONSES", lang |-> order[first],
                  entry |-> "message"]
            /\ ~run.result.retrieval
            /\ ~run.result.generator

C15_Witness ==
    /\ run.pc = "done"
    /\ run.fn = "get_bot_response"
    /\ run.text = Q_hello_there
    /\ run.language = "en"
    /\ GreetsIn(run.text, "en")
    /\ run.result.response =
         [src |-> "GREETING_RESPONSES", lang |-> "fr", entry |-> "message"]

(***************************************************************************)
(* Claims about clean_llama_response, checked under SpecClean.             *)
(***************************************************************************)
\* C16: clean_llama_response is idempotent: cleaning an answer it has
\* already cleaned, with the same query, gives that answer again.
C16_CleanIdempotent ==
    run.pc = "done" => run.twice = run.once

\* The paragraphs at the places of the best scores, in their first order.
BestInOrder(paragraphs, significant_words) ==
    LET best == BestPlaces(paragraphs, significant_words)
        Place(n) == CHOOSE i \in best : Cardinality({j \in best : j < i}) = n - 1
    IN  [n \in 1..Cardinality(best) |-> paragraphs[Place(n)]]

\* C17: with a query, the selection keeps at most 4 paragraphs, those of
\* the highest scores, in their original order, and the first paragraph
\* when it selects none.
C17_AtMostFourBest ==
    (run.pc = "done" /\ Len(run.raw) >= 10 /\ run.query # <<>>) =>
        /\ Len(run.kept) <= 4
        /\ run.kept = BestInOrder(run.paragraphs, SignificantWords(run.query))
        /\ run.paragraphs # <<>> => run.kept # <<>>

\* C18: when the raw text holds the instruction that generate_llama_prompt
\* builds for a language, from its header through its question marker, the
\* cleaned text no longer holds it.
C18_InstructionBlockRemoved ==
    (run.pc = "done" /\ run.block # "none" /\ Contains(run.raw, run.instruction)) =>
        ~Contains(run.once, InstructionHeader(run.block))

(***************************************************************************)
(* Claims about extract_relevant_knowledge, checked under SpecKnow.        *)
(***************************************************************************)
\* The joined paragraphs of a finished call were longer than 1500 characters.
JoinedExceeded ==
    /\ Len(run.knowledge_base) >= 1000
    /\ Len(combined_segments(run.query, run.knowledge_base, run.language)) > 1500

\* C19: extract_relevant_knowledge returns at most 1500 characters plus the
\* 3-character marker "...", and the marker is appended exactly when the
\* joined paragraphs were longer than 1500 characters: the result is then
\* their first 1500 characters and the marker, and otherwise a text of at
\* most 1500 characters given back as it was.
C19_AtMost1500PlusMarker ==
    run.pc = "done" =>
        LET combined == combined_segments(run.query, run.knowledge_base, run.language)
        IN  /\ Len(run.result) <= 1500 + 3
            /\ JoinedExceeded => run.result = SubSeq(combined, 1, 1500) \o <<".", ".", ".">>
            /\ ~JoinedExceeded =>
                 /\ Len(run.result) <= 1500
                 /\ run.result \in {run.knowledge_base, combined}

\* a base whose joined paragraphs have 1501 characters is cut to 1500 and
\* marked, and one whose joined paragraphs have 1500 is given back whole
C19_Witness ==
    /\ run.pc = "done"
    /\ run.knowledge_base = K_one_1501
    /\ Len(run.result) = 1503
    /\ SubSeq(run.result, 1501, 1503) = <<".", ".", ".">>

\* C20: a knowledge base of fewer than 1000 characters is returned
\* unchanged for every query and language; one of 1000 characters or more
\* goes through the paragraph filtering.
C20_ShortReturnedWhole ==
    run.pc = "done" =>
        IF Len(run.knowledge_base) < 1000
        THEN run.result = run.knowledge_base
        ELSE run.result =
               LimitSegments(combined_segments(run.query, run.knowledge_base,
                                               run.language))

\* a base of exactly 1000 characters loses the paragraphs without keyword
C20_Witness ==
    /\ run.pc = "done"
    /\ Len(run.knowledge_base) = 1000
    /\ run.query = Q_traitement
    /\ run.language = "fr"
    /\ run.result = KP_treatment
    /\ run.result # run.knowledge_base

(***************************************************************************)
(* Claims about image analysis, checked under Spec.                        *)
(***************************************************************************)
Displayed == run.obs.op = "display"
DisplayedBoxes == run.obs.results.list[1].boxes
RecordsSince(h0) == SubSeq(history, Len(h0) + 1, Len(history))

\* C3: every completed image analysis leaves an analysis-complete record in
\* the history, and for an analysis with boxes the record carries the
\* number of boxes and the malignant and benign counts.
C3_AnalysisCompleteRecorded ==
    Displayed =>
        \E i \in 1..Len(history) :
            /\ history[i].type = "on_analysis_complete"
            /\ HasDetections(run.obs.results) =>
                 /\ history[i].data.total_detections = Len(DisplayedBoxes)
                 /\ history[i].data.malignant_count = run.obs.malignant_count
                 /\ history[i].data.benign_count = run.obs.benign_count

\* C4: when the user submits a query and the generator raises, an on_error
\* record with error_type "response_generation_error" is in the history.
C4_GeneratorErrorRecorded ==
    (run.obs.op = "chat" /\ run.obs.generator_raised) =>
        \E i \in 1..Len(history) :
            /\ history[i].type = "on_error"
            /\ history[i].data.error_type = "response_generation_error"

\* C6: a detected box is classified malignant exactly when its confidence
\* is strictly greater than 0.70, and after display_results with at least
\* one box the session condition is the class of the box with the highest
\* confidence.
C6_MalignantIffAboveThreshold ==
    /\ \A i \in 1..Len(history) :
         history[i].type = "on_classification" =>
            /\ history[i].data.is_malignant = (history[i].data.confidence > 70)
            /\ history[i].data.adjusted_class =
                 IF history[i].data.confidence > 70 THEN "cancer" ELSE "normal"
    /\ (Displayed /\ HasDetections(run.obs.results)) =>
         \E i \in 1..Len(DisplayedBoxes) :
            /\ \A j \in 1..Len(DisplayedBoxes) : DisplayedBoxes[j] <= DisplayedBoxes[i]
            /\ ss.detected_condition =
                 IF DisplayedBoxes[i] > 70 THEN "cancer" ELSE "normal"

C6_Witness ==
    /\ Displayed
    /\ HasDetections(run.obs.results)
    /\ DisplayedBoxes = <<71, 70>>
    /\ ss.detected_condition = "cancer"
    /\ \E i \in 1..Len(history) :
         /\ history[i].type = "on_classification"
         /\ history[i].data.confidence = 70
         /\ ~history[i].data.is_malignant

\* C7: after an image analysis with no detections (no boxes, no results, or
\* a failed prediction) the session condition is none, whatever an earlier
\* analysis of the session had set.
C7_NoDetectionClearsCondition ==
    (Displayed /\ ~HasDetections(run.obs.results)) =>
        ss.detected_condition = "None"

C7_Witness ==
    /\ Displayed
    /\ ~HasDetections(run.obs.results)
    /\ run.obs.previous \in {"normal", "cancer"}
    /\ ss.detected_condition = "None"

\* C8: an analysis of n >= 1 boxes appends exactly n classification records
\* to the history, one per box in the order of the detector's output, each
\* with is_malignant true exactly when the confidence of its box is above
\* 0.70, and the malignant and benign counts add up to n.
C8_OneClassificationPerBox ==
    (Displayed /\ HasDetections(run.obs.results)) =>
        LET n == Len(DisplayedBoxes)
            h0 == run.obs.history0
            since == RecordsSince(h0)
        IN  /\ SubSeq(history, 1, Len(h0)) = h0
            /\ Len(since) >= n
            /\ \A i \in 1..n :
                 /\ since[i].type = "on_classification"
                 /\ since[i].data.detection_id[2] = i - 1
                 /\ since[i].data.confidence = DisplayedBoxes[i]
                 /\ since[i].data.is_malignant = (DisplayedBoxes[i] > 70)
            /\ \A i \in (n + 1)..Len(since) : since[i].type # "on_classification"
            /\ run.obs.malignant_count + run.obs.benign_count = n

C8_Witness ==
    /\ Displayed
    /\ HasDetections(run.obs.results)
    /\ DisplayedBoxes = <<30, 85>>
    /\ run.obs.malignant_count = 1
    /\ run.obs.benign_count = 1
    /\ Len(RecordsSince(run.obs.history0)) >= 2

(***************************************************************************)
(* modules/chat.py: get_llama_response with the text that                  *)
(* clean_llama_response makes of the generated text.                       *)
(***************************************************************************)
\* get_llama_response, lines 162-204: the text returned for a query, the
\* answer of detect_language and what create_completion does.
get_llama_response_text(query, language, gen) ==
    IF ~is_health_related(query, language) THEN OFF_TOPIC_MESSAGES(language)
    ELSE IF gen.kind = "raises" THEN FallbackOfLlama(query, language)
    ELSE Only({IF Len(text) < 10 THEN FallbackOfLlama(query, language)
               ELSE clean_llama_response(text, query) :
               text \in {Strip(gen.text)}})

\* What create_completion does: it raises, or returns a text.
AnswerGeneratorOutcomes ==
    {[kind |-> "raises", text |-> <<>>]}
        \cup {[kind |-> "returns", text |-> t] :
                 t \in {raw.text : raw \in RawTexts} \cup {T_short, T_padded}}

AnswerQueries == {Q_traitement, Q_which_treatment, Q_ar_treatment}

InitAnswer ==
    /\ BusAtRest
    /\ ss = [none |-> TRUE]
    /\ \E query \in AnswerQueries, language \in LanguageTags,
          gen \in AnswerGeneratorOutcomes :
         run = [pc |-> "call", query |-> query, language |-> language,
                gen |-> gen, result |-> [none |-> TRUE]]

CallLlamaAnswer ==
    /\ run.pc = "call"
    /\ \E result \in {get_llama_response_text(run.query, run.language, run.gen)} :
         run' = [run EXCEPT !.pc = "done", !.result = result]
    /\ UNCHANGED <<ss>>
    /\ UNCHANGED busVars

NextAnswer == CallLlamaAnswer
SpecAnswer == InitAnswer /\ [][NextAnswer]_vars

\* C29: for every health-related query and every behaviour of the
\* generator, the text get_llama_response returns is not empty.
C29_AnswerNeverEmpty ==
    (run.pc = "done" /\ is_health_related(run.query, run.language)) =>
        run.result # <<>>

(***************************************************************************)
(* modules/callbacks.py: save_history and clear_history, with register and *)
(* trigger run to completion between them.                                 *)
(***************************************************************************)
\* What open(file_path, 'w') and json.dump do: the file is written, open
\* raises, or json.dump raises after a part of the text was written.
SaveOutcomes == {"written", "open_raises", "dump_raises"}

\* A clear that keeps the newest record.
clear_history_KeepsNewest(h) ==
    IF Len(h) = 0 THEN h ELSE <<h[Len(h)]>>

\* clear_history, lines 109-112: self.history = []
clear_history(h) == <<>>

\* save_history(file_path), lines 95-107: what the file holds afterwards
\* (old is what it held before) and whether an exception leaves the
\* function; the except of line 106 catches every failure.
save_history(h, old, outcome) ==
    [file |-> IF outcome = "written" THEN [text |-> "json", records |-> h]
              ELSE IF outcome = "dump_raises" THEN [text |-> "partial", records |-> <<>>]
              ELSE old,
     raised |-> FALSE]

NoFile == [text |-> "none", records |-> <<>>]

InitHist ==
    /\ BusAtRest
    /\ ss = [file |-> NoFile]
    /\ run = [pc |-> "off"]

histFrame == UNCHANGED <<accepted, pc, ev, tmp, idx, calls, run>>

HistRegister(event_type, callback) ==
    /\ nreg < MaxRegistrations
    /\ nreg' = nreg + 1
    /\ callbacks' = IF event_type \notin CALLBACK_TYPES THEN callbacks
                    ELSE [callbacks EXCEPT ![event_type] =
                             RegisterCallback(@, callback)]
    /\ last' = [op |-> "register", prev |-> last.op,
                callbacks0 |-> callbacks, history0 |-> history, raised |-> FALSE]
    /\ UNCHANGED <<history, clock, ntrig, ss>>
    /\ histFrame

HistTrigger(event_type) ==
    /\ ntrig < MaxTriggers
    /\ ntrig' = ntrig + 1
    /\ history' = TriggerHistory(history, event_type, clock, [payload |-> "p"])
    /\ clock' = TriggerClock(event_type, clock)
    /\ last' = [op |-> "trigger", prev |-> last.op, kind |-> event_type,
                clock0 |-> clock,
                callbacks0 |-> callbacks, history0 |-> history, raised |-> FALSE]
    /\ UNCHANGED <<callbacks, nreg, ss>>
    /\ histFrame

ClearHistory ==
    /\ history' = clear_history(history)
    /\ last' = [op |-> "clear_history", prev |-> last.op,
                callbacks0 |-> callbacks, history0 |-> history, raised |-> FALSE]
    /\ UNCHANGED <<callbacks, clock, ntrig, nreg, ss>>
    /\ histFrame

SaveHistory(outcome) ==
    /\ LET saved == save_history(history, ss.file, outcome)
       IN  /\ ss' = [ss EXCEPT !.file = saved.file]
           /\ last' = [op |-> "save_history", prev |-> last.op,
                       callbacks0 |-> callbacks, history0 |-> history,
                       raised |-> saved.raised]
    /\ UNCHANGED <<callbacks, history, clock, ntrig, nreg>>
    /\ histFrame

NextHist ==
    \/ \E k \in {"on_message", "on_unknown"}, s \in Subscribers : HistRegister(k, s)
    \/ \E k \in {"on_message", "on_unknown"} : HistTrigger(k)
    \/ ClearHistory
    \/ \E outcome \in SaveOutcomes : SaveHistory(outcome)

SpecHist == InitHist /\ [][NextHist]_vars

\* C25: after clear_history the history is empty and the registry is the
\* one before the call; a trigger that follows a clear leaves a history
\* that holds its own record only; after save_history the history and the
\* registry are the ones before the call and no exception left the
\* function, also when open or json.dump failed.
C25_ClearEmptiesSaveKeeps ==
    /\ last.op = "clear_history" =>
          /\ history = <<>>
          /\ callbacks = last.callbacks0
          /\ ~last.raised
    /\ (last.op = "trigger" /\ last.prev = "clear_history") =>
          /\ callbacks = last.callbacks0
          /\ history = IF last.kind \in CALLBACK_TYPES
                       THEN <<EventData(last.kind, last.clock0, [payload |-> "p"])>>
                       ELSE <<>>
    /\ last.op = "save_history" =>
          /\ history = last.history0
          /\ callbacks = last.callbacks0
          /\ ~last.raised

C25_Witness ==
    /\ last.op = "clear_history"
    /\ Len(last.history0) = 2
    /\ history = <<>>
    /\ callbacks["on_message"] = <<"s1", "s2">>
    /\ ss.file.records = last.history0

C25_Witness_SaveFails ==
    /\ last.op = "save_history"
    /\ ss.file.text = "partial"
    /\ Len(history) = 2
    /\ history = last.history0
    /\ callbacks["on_message"] # <<>>

C25_Witness_TriggerAfterClear ==
    /\ last.op = "trigger"
    /\ last.prev = "clear_history"
    /\ last.kind = "on_message"
    /\ Len(history) = 1
    /\ clock = 3

(***************************************************************************)
(* Claims about the session, checked under Spec.                           *)
(***************************************************************************)
ResetStep == run.pc = "sidebar" /\ run.event.type = "reset"

IsPrefix(s, t) == Len(s) <= Len(t) /\ SubSeq(t, 1, Len(s)) = s
ChatSubmitStep ==
    run.pc = "chat" /\ run.event.type = "submit" /\ run.event.query # <<>>

\* C22: except in a reset, every step keeps the messages it found, in
\* their order and unchanged, as the beginning of the messages it leaves;
\* a processed chat submission appends exactly the user message and then
\* one assistant message, whose content is the response of the request
\* (the fallback response when response generation raised).
C22_MessagesAppendOnly ==
    [][~ResetStep =>
          /\ IsPrefix(ss.messages, ss'.messages)
          /\ ChatSubmitStep =>
                /\ Len(ss'.messages) = Len(ss.messages) + 2
                /\ ss'.messages[Len(ss.messages) + 1] =
                      Message("user", UserText(run.event.query))
                /\ ss'.messages[Len(ss.messages) + 2] =
                      Message("assistant", run'.obs.response)
                /\ \E language \in SessionLanguageTags,
                      language2 \in SessionLanguageTags,
                      gen \in SessionGeneratorOutcomes :
                      run'.obs.response =
                          get_bot_response(run.event.query, ss.llama_model # "None",
                                           ss.detected_condition,
                                           language, language2, gen).response
          /\ ~ChatSubmitStep => Len(ss'.messages) <= Len(ss.messages) + 1]_vars

C22_Witness ==
    /\ run.obs.op = "chat"
    /\ Len(ss.messages) = 4
    /\ ss.messages[1].role = "user"
    /\ ss.messages[2].role = "assistant"
    /\ ss.messages[3] = Message("user", UserText(run.obs.query))
    /\ ss.messages[4] = Message("assistant", run.obs.response)

\* The text the sink holds: the chunks it received, in the order of their
\* arrival, without the empty ones.
Accumulated(current_response) ==
    SelectSeq(current_response, LAMBDA chunk : chunk # <<>>)

\* C27: when a chat request has completed, the text accumulated by the
\* sink is the response of the request, received once, and that response
\* is the content of the assistant message appended to the conversation.
C27_SinkHoldsFinalResponse ==
    run.obs.op = "chat" =>
        /\ Accumulated(run.obs.current_response) =
              Accumulated(<<run.obs.response>>)
        /\ ss.messages[Len(ss.messages)] =
              Message("assistant", run.obs.response)

C27_Witness ==
    /\ run.obs.op = "chat"
    /\ run.obs.generator
    /\ run.obs.current_response = <<run.obs.response>>
    /\ run.obs.response = CleanedAnswer(T_answer, run.obs.query)
    /\ ss.messages[Len(ss.messages)].content = run.obs.response

PredictStep ==
    run.pc = "image" /\ ss.file_uploader # NoImage /\ ss.model # "None"
Added == SubSeq(history', Len(history) + 1, Len(history'))

\* C23: when the detector raises inside predict_with_yolo, the analysis
\* goes on: one on_error record with error_type prediction_error and
\* module detection is appended to the history and nothing else, the
\* result is None, display_results sets the session condition to none and
\* the message step appends no assistant message.
C23_DetectorFailureContained ==
    [][/\ (PredictStep /\ ss.file_uploader.detector = "raises") =>
            /\ run'.pc = "display"
            /\ run'.results = NoResults
            /\ SubSeq(history', 1, Len(history)) = history
            /\ Len(Added) = 1
            /\ Added[1].type = "on_error"
            /\ Added[1].data.error_type = "prediction_error"
            /\ Added[1].data.module = "detection"
       /\ (run.pc = "display" /\ run.results.none) =>
            ss'.detected_condition = "None"
       /\ (run.pc = "message" /\ run.results.none) =>
            /\ ss'.messages = ss.messages
            /\ ss'.detected_condition = "None"]_vars

C23_Witness ==
    /\ run.pc = "idle"
    /\ Displayed
    /\ run.obs.results = NoResults
    /\ run.obs.previous = "cancer"
    /\ ss.detected_condition = "None"
    /\ Len(ss.messages) = 1
    /\ \E i \in 1..Len(history) :
         /\ history[i].type = "on_error"
         /\ history[i].data.error_type = "prediction_error"

\* The records predict_with_yolo makes: on_detection with the confidence
\* list (the on_detection of on_tumor_detection has no such field).
IsPredictionRecord(r) ==
    r.type = "on_detection" /\ "confidence_scores" \in DOMAIN r.data

\* C26: a prediction that returns at least one box appends exactly one
\* on_detection record of predict_with_yolo, which carries the confidence
\* of every returned box, their number and the threshold used; a
\* prediction that returns no box appends no on_detection record at all.
C26_OneDetectionRecordIffBoxes ==
    [][PredictStep =>
          IF HasDetections(run'.results)
          THEN /\ IsPredictionRecord(Added[1])
               /\ Added[1].data.confidence_scores = run'.results.list[1].boxes
               /\ Added[1].data.detection_count = Len(run'.results.list[1].boxes)
               /\ Added[1].data.threshold_used = ss.conf_threshold
               /\ \A i \in 2..Len(Added) : ~IsPredictionRecord(Added[i])
          ELSE \A i \in 1..Len(Added) : Added[i].type # "on_detection"]_vars

C26_Witness ==
    /\ run.pc = "display"
    /\ run.results = ResultList(<<[boxes |-> <<85>>]>>)
    /\ ss.conf_threshold = 75
    /\ \E i \in 1..Len(history) :
         /\ IsPredictionRecord(history[i])
         /\ history[i].data.confidence_scores = <<85>>
         /\ history[i].data.threshold_used = 75

C26_Witness_NoBoxes ==
    /\ run.pc = "display"
    /\ run.results = ResultList(<<[boxes |-> <<>>]>>)
    /\ \A i \in 1..Len(history) : history[i].type # "on_detection"

\* The answers get_bot_response has without a generator.
AnswersWithoutGenerator(question) ==
    {GREETING_RESPONSES(lang) : lang \in {"fr", "en", "ar"}}
        \cup {OFF_TOPIC_MESSAGES(lang) : lang \in SessionLanguageTags}
        \cup {ConditionMessage(c, lang) :
                 c \in {"normal", "cancer"}, lang \in SessionLanguageTags}
        \cup {get_fallback_responses(question, lang) : lang \in SessionLanguageTags}

\* C24: once startup has failed to load the generator, the history holds
\* a model_loading_error record of module chat; every chat request of the
\* session then completes without raising and without the generator, its
\* response being a greeting, the off-topic message, a condition message
\* or the canned fallback of get_fallback_responses; and no later run
\* loads the resources again.
C24_GeneratorLoadFailureTolerated ==
    [][/\ (ss'.resources_loaded /\ ss'.llama_model = "None") =>
            \E i \in 1..Len(history') :
               /\ history'[i].type = "on_error"
               /\ history'[i].data.error_type = "model_loading_error"
               /\ history'[i].data.module = "chat"
       /\ (ChatSubmitStep /\ ss.llama_model = "None") =>
            /\ run'.obs.op = "chat"
            /\ ~run'.obs.raised
            /\ ~run'.obs.generator
            /\ run'.obs.response \in AnswersWithoutGenerator(run.event.query)
            /\ ss'.messages[Len(ss'.messages)].content = run'.obs.response
       /\ ss.resources_loaded =>
            /\ ss'.resources_loaded
            /\ ss'.model = ss.model
            /\ ss'.llama_model = ss.llama_model
            /\ run.pc = "main" => history' = history]_vars

C24_Witness ==
    /\ ss.resources_loaded
    /\ ss.llama_model = "None"
    /\ ss.nruns = 2
    /\ run.obs.op = "chat"
    /\ run.obs.query = Q_traitement
    /\ run.obs.response \in
         {get_fallback_responses(Q_traitement, lang) : lang \in SessionLanguageTags}
    /\ \E i \in 1..Len(history) :
         /\ history[i].type = "on_error"
         /\ history[i].data.error_type = "model_loading_error"
         /\ history[i].data.module = "chat"

(***************************************************************************)
(* Claims about get_bot_response, checked under SpecBot.                   *)
(***************************************************************************)
BotAnswered == run.pc = "done" /\ run.fn = "get_bot_response"
HealthQuery ==
    /\ detect_greeting_language(run.text) = "None"
    /\ is_health_related(run.text, run.language)

\* C28: with a benign or malignant session condition, get_bot_response
\* answers every health-related query that is not a greeting with the
\* condition message of the detected language, without knowledge retrieval
\* and without the generator; and whenever the generator was invoked, the
\* query was not a greeting, was health-related, no condition was set and
\* a generator was loaded.
C28_ConditionMessageWithoutGenerator ==
    BotAnswered =>
        /\ (HealthQuery /\ run.detected_condition \in {"normal", "cancer"}) =>
              /\ run.result.response =
                    Canned(IF run.detected_condition = "normal"
                           THEN "benign_condition_message"
                           ELSE "malignant_condition_message",
                           IF run.language \in {"fr", "en", "ar"}
                           THEN run.language ELSE "fr", "message")
              /\ ~run.result.retrieval
              /\ ~run.result.generator
        /\ (run.result.generator \/ run.result.retrieval) =>
              /\ HealthQuery
              /\ run.detected_condition = "None"
              /\ run.llama_loaded

C28_Witness ==
    /\ BotAnswered
    /\ run.text = Q_which_treatment
    /\ run.language = "en"
    /\ run.llama_loaded
    /\ run.gen.kind = "returns"
    /\ run.detected_condition = "cancer"
    /\ run.result.response = Canned("malignant_condition_message", "en", "message")
    /\ ~run.result.generator

C28_Witness_Generator ==
    /\ BotAnswered
    /\ run.text = Q_which_treatment
    /\ run.detected_condition = "None"
    /\ run.llama_loaded
    /\ run.result.generator

\* C30: a script run that was not started by an upload, and so runs
\* image_analysis_section with the file of an earlier run (the rerun after
\* a chat submission, a move of the slider, a reset), appends no analysis
\* message to the conversation.
C30_RerunAppendsNoAnalysisMessage ==
    [][(run.pc = "message" /\ run.event.type # "upload") =>
          ss'.messages = ss.messages]_vars

=============================================================================
